---- MODULE Spec2Model ----
(***************************************************************************)
(* The section state machine of the routing crate: `Section`               *)
(* (src/src/section/section.rs) with the collaborators it calls            *)
(* (SectionProofChain, SectionPeers, EldersInfo, Proven, Prefix).          *)
(*                                                                         *)
(* Cryptography is symbolic.  A BLS signature is the pair of the key that  *)
(* produced it and the serialised payload it was produced over; it         *)
(* verifies under a public key exactly when that key produced it over that *)
(* payload.  A forged or corrupted signature is one whose signer or        *)
(* payload differs from what is claimed.                                   *)
(*                                                                         *)
(* Names are NameBits wide instead of 256; a prefix is the sequence of its *)
(* leading bits.                                                           *)
(***************************************************************************)
EXTENDS Integers, Sequences, FiniteSets, TLC

(***************************************************************************)
(* Bounds of the model.                                                    *)
(***************************************************************************)
NameBits == 2
NKeys == 3
MaxChainLen == 3
MaxAge == 5
ElderSize == 2
RecommendedSectionSize == 2
MaxVersion == 3
IdBits == 5
MaxAddrs == 2
MaxRng == 3

(***************************************************************************)
(* Program constants.                                                      *)
(***************************************************************************)
MIN_AGE == 4

Names == 0 .. (2 ^ NameBits - 1)
Keys == 0 .. (NKeys - 1)
Ages == MIN_AGE .. MaxAge

(***************************************************************************)
(* Generic helpers.                                                        *)
(***************************************************************************)
Min(a, b) == IF a <= b THEN a ELSE b

Range(f) == {f[x] : x \in DOMAIN f}

Restrict(f, S) == [x \in S |-> f[x]]

(***************************************************************************)
(* Symbolic BLS signatures.                                                *)
(***************************************************************************)
Sign(key, payload) == [signer |-> key, payload |-> payload]

Verify(key, signature, payload) ==
    /\ signature.signer = key
    /\ signature.payload = payload

(***************************************************************************)
(* Prefix / XorName algebra.                                               *)
(***************************************************************************)
\* XorName::bit(i): bit i of the name, most significant first.
NameBit(name, i) == (name \div (2 ^ (NameBits - 1 - i))) % 2

\* Prefix::matches
Matches(prefix, name) ==
    \A i \in 1 .. Len(prefix) : NameBit(name, i - 1) = prefix[i]

\* Prefix::pushed
Pushed(prefix, bit) == Append(prefix, bit)

\* Prefix::is_extension_of
IsExtensionOf(prefix, other) ==
    /\ Len(prefix) > Len(other)
    /\ SubSeq(prefix, 1, Len(other)) = other

\* Prefix::default(): the empty prefix, which matches every name.
EmptyPrefix == << >>

\* The prefixes of the sections considered: the whole name space and its two
\* halves, which are each other's sibling and the extensions of the first.
Prefixes == {EmptyPrefix, <<0>>, <<1>>}

(***************************************************************************)
(* Proof and Proven<T>.                                                    *)
(***************************************************************************)
Proof(key, signature) == [public_key |-> key, signature |-> signature]

Proven(value, proof) == [value |-> value, proof |-> proof]

\* A payload signed by `key` the way the section (consensus) signs it.
ProvenBy(value, key) == Proven(value, Proof(key, Sign(key, value)))

\* Proven::self_verify
ProvenSelfVerify(proven) ==
    Verify(proven.proof.public_key, proven.proof.signature, proven.value)

(***************************************************************************)
(* SectionProofChain: a first key and the links (key, signature) after it. *)
(***************************************************************************)
NoIndex == -1

Block(key, signature) == [key |-> key, signature |-> signature]

\* SectionProofChain::new
ChainNew(first_key) == [head |-> first_key, tail |-> << >>]

\* SectionProofChain::keys
ChainKeys(chain) ==
    <<chain.head>> \o [i \in 1 .. Len(chain.tail) |-> chain.tail[i].key]

ChainLen(chain) == 1 + Len(chain.tail)

\* SectionProofChain::last_key
LastKey(chain) ==
    IF chain.tail = << >> THEN chain.head ELSE chain.tail[Len(chain.tail)].key

\* SectionProofChain::has_key
HasKey(chain, key) ==
    \/ chain.head = key
    \/ \E i \in 1 .. Len(chain.tail) : chain.tail[i].key = key

\* SectionProofChain::index_of: the 0-based index of the key, NoIndex for None.
IndexOf(chain, key) ==
    IF HasKey(chain, key)
    THEN (CHOOSE i \in 1 .. ChainLen(chain) :
             /\ ChainKeys(chain)[i] = key
             /\ \A j \in 1 .. (i - 1) : ChainKeys(chain)[j] # key) - 1
    ELSE NoIndex

\* SectionProofChain::self_verify: every link is signed by the key before it.
ChainSelfVerify(chain) ==
    \A i \in 1 .. Len(chain.tail) :
        Verify(ChainKeys(chain)[i], chain.tail[i].signature, chain.tail[i].key)

\* SectionProofChain::push: appends iff the signature verifies under the last
\* key; returns whether it did.
ChainPush(chain, key, signature) ==
    IF Verify(LastKey(chain), signature, key)
    THEN [ok |-> TRUE,
          chain |-> [chain EXCEPT !.tail = Append(@, Block(key, signature))]]
    ELSE [ok |-> FALSE, chain |-> chain]

\* SectionProofChain::slice(from..): the suffix starting at the 0-based index
\* `from` (the callers pass the index of a key of the chain).
ChainSlice(chain, from) ==
    [head |-> ChainKeys(chain)[from + 1],
     tail |-> SubSeq(chain.tail, from + 1, Len(chain.tail))]

\* The keys of `other`, read from its 0-based index `at`, agree with the keys
\* of `chain` read from its start wherever both have one (no fork).
SameKeys(chain, other, at) ==
    \A i \in 1 .. Min(ChainLen(chain), ChainLen(other) - at) :
        ChainKeys(chain)[i] = ChainKeys(other)[at + i]

\* SectionProofChain::merge: splices `other` onto `chain` when they share a
\* key.  The links of `other` that continue past our last key are appended;
\* it fails, leaving the chain as it was, when no key is shared, when the two
\* histories fork, or when an appended link is not signed by its predecessor.
ChainMerge(chain, other) ==
    LET ours   == IndexOf(chain, other.head)
        theirs == IndexOf(other, chain.head)
        \* 0-based index in `other` of the key aligned with our first key
        \* (negative when `other` starts inside our chain).
        shift  == IF ours # NoIndex THEN 0 - ours ELSE theirs
        fail   == [ok |-> FALSE, chain |-> chain]
    IN  IF ours = NoIndex /\ theirs = NoIndex THEN fail
        ELSE IF ~(IF ours # NoIndex
                  THEN SameKeys(other, chain, ours)
                  ELSE SameKeys(chain, other, theirs)) THEN fail
        ELSE LET \* number of keys of `other` that lie at or before our last key
                 covered == ChainLen(chain) + shift
                 extension == IF covered >= ChainLen(other) THEN << >>
                              ELSE SubSeq(other.tail, covered, Len(other.tail))
                 merged == [chain EXCEPT !.tail = @ \o extension]
                 trusted == \A i \in (Len(chain.tail) + 1) .. Len(merged.tail) :
                                Verify(ChainKeys(merged)[i], merged.tail[i].signature,
                                       merged.tail[i].key)
             IN  IF trusted THEN [ok |-> TRUE, chain |-> merged] ELSE fail

(***************************************************************************)
(* EldersInfo: the elders of a section and its prefix.  The map            *)
(* name -> Peer is represented by its key set: the peer behind a name is   *)
(* the one recorded in the member table.                                   *)
(***************************************************************************)
\* EldersInfo::new: keeps the candidates that match the prefix.
EldersInfoNew(elders, prefix) ==
    [elders |-> {n \in elders : Matches(prefix, n)}, prefix |-> prefix]

\* majority_count
majority_count(n) == n \div 2 + 1

\* Proven::verify(chain): the proof's key is in the chain and the signature
\* verifies.
ProvenVerify(proven, chain) ==
    /\ HasKey(chain, proven.proof.public_key)
    /\ ProvenSelfVerify(proven)

(***************************************************************************)
(* MemberInfo and SectionPeers: name -> Proven<MemberInfo>.                *)
(***************************************************************************)
PeerStates == {"Joined", "Left", "Relocated"}

\* State precedence Joined < Left < Relocated.
StateRank(state) ==
    CASE state = "Joined" -> 0
      [] state = "Left" -> 1
      [] state = "Relocated" -> 2

Peer(name, age) == [name |-> name, age |-> age]

MemberInfo(peer, state) == [peer |-> peer, state |-> state]

\* MemberInfo::joined
MemberJoined(peer) == MemberInfo(peer, "Joined")

\* SectionPeers::default()
NoMembers == [n \in {} |-> 0]

\* The index in `chain` of the key a member entry was signed with.
SigningKeyIndex(entry, chain) == IndexOf(chain, entry.proof.public_key)

\* SectionPeers::update: [changed, members].
PeersUpdate(members, member_info, proof, chain) ==
    LET new  == Proven(member_info, proof)
        name == member_info.peer.name
        keep == [changed |-> FALSE, members |-> members]
        put  == [changed |-> TRUE,
                 members |-> [n \in DOMAIN members \cup {name} |->
                                 IF n = name THEN new ELSE members[n]]]
    IN  IF ~ProvenVerify(new, chain) THEN keep
        ELSE IF name \notin DOMAIN members THEN put
        ELSE LET old == members[name]
                 old_index == SigningKeyIndex(old, chain)
                 new_index == SigningKeyIndex(new, chain)
             IN  IF old_index > new_index THEN keep
                 ELSE IF /\ old_index = new_index
                         /\ StateRank(old.value.state) > StateRank(member_info.state)
                      THEN keep
                 ELSE IF old = new THEN keep
                 ELSE put

\* SectionPeers::merge: `update` for every entry of `other`.  The entries
\* have distinct names, so the order of application does not matter.
PeersMerge(members, other, chain) ==
    LET updated(n) == PeersUpdate(members, other[n].value, other[n].proof, chain)
    IN  [n \in DOMAIN members \cup
                 {m \in DOMAIN other : updated(m).changed} |->
            IF n \in DOMAIN other /\ updated(n).changed
            THEN updated(n).members[n]
            ELSE members[n]]

\* SectionPeers::remove_not_matching_our_prefix
RemoveNotMatchingOurPrefix(members, prefix) ==
    Restrict(members, {n \in DOMAIN members : Matches(prefix, n)})

\* SectionPeers::is_joined
IsJoined(members, name) ==
    name \in DOMAIN members /\ members[name].value.state = "Joined"

\* SectionPeers::adults: the names of the joined members of adult age.
Adults(members) ==
    {n \in DOMAIN members :
        /\ members[n].value.state = "Joined"
        /\ members[n].value.peer.age >= MIN_AGE}

\* The name a prefix stands for: its bits followed by zeros.
RECURSIVE PrefixName(_)
PrefixName(prefix) ==
    IF prefix = << >> THEN 0
    ELSE PrefixName(SubSeq(prefix, 1, Len(prefix) - 1))
            + prefix[Len(prefix)] * 2 ^ (NameBits - Len(prefix))

\* XOR distance between two names.
RECURSIVE XorBits(_, _, _)
XorBits(a, b, i) ==
    IF i = NameBits THEN 0
    ELSE (IF NameBit(a, i) # NameBit(b, i) THEN 2 ^ (NameBits - 1 - i) ELSE 0)
            + XorBits(a, b, i + 1)

XorDistance(a, b) == XorBits(a, b, 0)

\* Candidate a is preferred to candidate b: higher age, then smaller XOR
\* distance to the prefix of the current elders, then smaller name.
PreferredCandidate(members, current, a, b) ==
    LET age(n)  == members[n].value.peer.age
        dist(n) == XorDistance(n, PrefixName(current.prefix))
    IN  \/ age(a) > age(b)
        \/ age(a) = age(b) /\ dist(a) < dist(b)
        \/ age(a) = age(b) /\ dist(a) = dist(b) /\ a < b

\* The `size` most preferred names of a candidate set.
BestCandidates(members, current, candidates, size) ==
    {n \in candidates :
        Cardinality({m \in candidates :
                        PreferredCandidate(members, current, m, n)}) < size}

\* SectionPeers::elder_candidates
PeersElderCandidates(members, size, current) ==
    BestCandidates(members, current, Adults(members), size)

\* SectionPeers::elder_candidates_matching_prefix
ElderCandidatesMatchingPrefix(members, prefix, size, current) ==
    BestCandidates(members, current,
                   {n \in Adults(members) : Matches(prefix, n)}, size)

(***************************************************************************)
(* Section: members, the proven EldersInfo and the proof chain.            *)
(***************************************************************************)
Section(members, elders_info, chain) ==
    [members |-> members, elders_info |-> elders_info, chain |-> chain]

\* Section::new; the caller guarantees chain.has_key(elders_info.proof.public_key).
SectionNew(chain, elders_info) == Section(NoMembers, elders_info, chain)

\* create_first_elders_info: the first EldersInfo is signed with the first key.
CreateFirstEldersInfo(key, peer) ==
    ProvenBy(EldersInfoNew({peer.name}, EmptyPrefix), key)

\* first_node that leaves the member table empty.
FirstNodeWithoutMembers(key, peer) ==
    LET elders_info == CreateFirstEldersInfo(key, peer)
    IN  SectionNew(ChainNew(elders_info.proof.public_key), elders_info)

\* Section::first_node
SectionFirstNode(key, peer) ==
    LET elders_info == CreateFirstEldersInfo(key, peer)
        section == SectionNew(ChainNew(elders_info.proof.public_key), elders_info)
        member_info == MemberJoined(peer)
        proof == Proof(key, Sign(key, member_info))
    IN  [section EXCEPT
            !.members = PeersUpdate(@, member_info, proof, section.chain).members]

\* cmp_section_chain_position without the check that the right-hand key is in
\* the chain: a verified right-hand side of unknown position counts as newer.
CmpIgnoringUnknownKey(lhs, rhs, section_chain) ==
    LET lhs_index == IndexOf(section_chain, lhs.proof.public_key)
        rhs_index == IndexOf(section_chain, rhs.proof.public_key)
    IN  CASE ProvenSelfVerify(lhs) /\ ~ProvenSelfVerify(rhs) -> "Greater"
          [] ~ProvenSelfVerify(lhs) /\ ProvenSelfVerify(rhs) -> "Less"
          [] ~ProvenSelfVerify(lhs) /\ ~ProvenSelfVerify(rhs) -> "None"
          [] OTHER ->
                IF rhs_index = NoIndex THEN "Less"
                ELSE IF lhs_index < rhs_index THEN "Less"
                ELSE IF lhs_index = rhs_index THEN "Equal"
                ELSE "Greater"

\* cmp_section_chain_position that does not ask whether the right-hand side
\* verifies itself.
CmpTrustingRightHandSide(lhs, rhs, section_chain) ==
    LET lhs_index == IndexOf(section_chain, lhs.proof.public_key)
        rhs_index == IndexOf(section_chain, rhs.proof.public_key)
    IN  IF ~ProvenSelfVerify(lhs) THEN "Less"
        ELSE IF lhs_index # NoIndex /\ rhs_index # NoIndex
        THEN (IF lhs_index < rhs_index THEN "Less"
              ELSE IF lhs_index = rhs_index THEN "Equal"
              ELSE "Greater")
        ELSE IF lhs_index # NoIndex THEN "Greater"
        ELSE IF rhs_index # NoIndex THEN "Less"
        ELSE "None"

\* cmp_section_chain_position that takes the earlier key for the newer one.
CmpNewestFirst(lhs, rhs, section_chain) ==
    LET lhs_index == IndexOf(section_chain, lhs.proof.public_key)
        rhs_index == IndexOf(section_chain, rhs.proof.public_key)
    IN  CASE ProvenSelfVerify(lhs) /\ ~ProvenSelfVerify(rhs) -> "Greater"
          [] ~ProvenSelfVerify(lhs) /\ ProvenSelfVerify(rhs) -> "Less"
          [] ~ProvenSelfVerify(lhs) /\ ~ProvenSelfVerify(rhs) -> "None"
          [] OTHER ->
                IF lhs_index # NoIndex /\ rhs_index # NoIndex
                THEN (IF lhs_index > rhs_index THEN "Less"
                      ELSE IF lhs_index = rhs_index THEN "Equal"
                      ELSE "Greater")
                ELSE IF lhs_index # NoIndex THEN "Greater"
                ELSE IF rhs_index # NoIndex THEN "Less"
                ELSE "None"

\* cmp_section_chain_position
CmpSectionChainPosition(lhs, rhs, section_chain) ==
    LET lhs_index == IndexOf(section_chain, lhs.proof.public_key)
        rhs_index == IndexOf(section_chain, rhs.proof.public_key)
    IN  CASE ProvenSelfVerify(lhs) /\ ~ProvenSelfVerify(rhs) -> "Greater"
          [] ~ProvenSelfVerify(lhs) /\ ProvenSelfVerify(rhs) -> "Less"
          [] ~ProvenSelfVerify(lhs) /\ ~ProvenSelfVerify(rhs) -> "None"
          [] OTHER ->
                IF lhs_index # NoIndex /\ rhs_index # NoIndex
                THEN (IF lhs_index < rhs_index THEN "Less"
                      ELSE IF lhs_index = rhs_index THEN "Equal"
                      ELSE "Greater")
                ELSE IF lhs_index # NoIndex THEN "Greater"
                ELSE IF rhs_index # NoIndex THEN "Less"
                ELSE "None"

\* merge that carries on with its own chain when the chains do not merge.
MergeIgnoringChainError(self, other) ==
    IF ~ChainSelfVerify(other.chain)
    THEN [result |-> "InvalidMessage", section |-> self]
    ELSE LET chain == ChainMerge(self.chain, other.chain).chain
             position == CmpSectionChainPosition(
                             self.elders_info, other.elders_info, chain)
             elders_info ==
                 IF position = "Less" THEN other.elders_info
                 ELSE IF /\ position = "Equal"
                         /\ Cardinality(self.elders_info.value.elders)
                               < Cardinality(other.elders_info.value.elders)
                      THEN other.elders_info
                 ELSE self.elders_info
             members == RemoveNotMatchingOurPrefix(
                            PeersMerge(self.members, other.members, chain),
                            elders_info.value.prefix)
         IN  [result |-> "Ok", section |-> Section(members, elders_info, chain)]

\* merge that merges the chains first and validates the other's chain after.
MergeBeforeValidating(self, other) ==
    LET merged == ChainMerge(self.chain, other.chain)
    IN  IF ~merged.ok
        THEN [result |-> "UntrustedMessage", section |-> self]
        ELSE IF ~ChainSelfVerify(other.chain)
        THEN [result |-> "InvalidMessage", section |-> self]
        ELSE LET chain == merged.chain
                 position == CmpSectionChainPosition(
                                 self.elders_info, other.elders_info, chain)
                 elders_info ==
                     IF position = "Less" THEN other.elders_info
                     ELSE IF /\ position = "Equal"
                             /\ Cardinality(self.elders_info.value.elders)
                                   < Cardinality(other.elders_info.value.elders)
                          THEN other.elders_info
                     ELSE self.elders_info
                 members == RemoveNotMatchingOurPrefix(
                                PeersMerge(self.members, other.members, chain),
                                elders_info.value.prefix)
             IN  [result |-> "Ok",
                  section |-> Section(members, elders_info, chain)]

\* merge whose tie-break also hands over on an equal number of elders.
MergeTieToOther(self, other) ==
    IF ~ChainSelfVerify(other.chain)
    THEN [result |-> "InvalidMessage", section |-> self]
    ELSE LET merged == ChainMerge(self.chain, other.chain)
         IN  IF ~merged.ok
             THEN [result |-> "UntrustedMessage", section |-> self]
             ELSE LET chain == merged.chain
                      position == CmpSectionChainPosition(
                                      self.elders_info, other.elders_info, chain)
                      elders_info ==
                          IF position = "Less" THEN other.elders_info
                          ELSE IF /\ position = "Equal"
                                  /\ Cardinality(self.elders_info.value.elders)
                                        <= Cardinality(other.elders_info.value.elders)
                               THEN other.elders_info
                          ELSE self.elders_info
                      members == RemoveNotMatchingOurPrefix(
                                     PeersMerge(self.members, other.members, chain),
                                     elders_info.value.prefix)
                  IN  [result |-> "Ok",
                       section |-> Section(members, elders_info, chain)]

\* merge that compares the EldersInfos in its chain as it was before merging.
MergeStaleChain(self, other) ==
    IF ~ChainSelfVerify(other.chain)
    THEN [result |-> "InvalidMessage", section |-> self]
    ELSE LET merged == ChainMerge(self.chain, other.chain)
         IN  IF ~merged.ok
             THEN [result |-> "UntrustedMessage", section |-> self]
             ELSE LET chain == merged.chain
                      position == CmpSectionChainPosition(
                                      self.elders_info, other.elders_info, self.chain)
                      elders_info ==
                          IF position = "Less" THEN other.elders_info
                          ELSE IF /\ position = "Equal"
                                  /\ Cardinality(self.elders_info.value.elders)
                                        < Cardinality(other.elders_info.value.elders)
                               THEN other.elders_info
                          ELSE self.elders_info
                      members == RemoveNotMatchingOurPrefix(
                                     PeersMerge(self.members, other.members, chain),
                                     elders_info.value.prefix)
                  IN  [result |-> "Ok",
                       section |-> Section(members, elders_info, chain)]

\* merge that takes over the other view's chain when that one is longer.
MergeAdoptingLongerChain(self, other) ==
    IF ~ChainSelfVerify(other.chain)
    THEN [result |-> "InvalidMessage", section |-> self]
    ELSE LET merged == ChainMerge(self.chain, other.chain)
         IN  IF ~merged.ok
             THEN [result |-> "UntrustedMessage", section |-> self]
             ELSE LET chain == IF ChainLen(other.chain) > ChainLen(self.chain)
                               THEN other.chain
                               ELSE merged.chain
                      position == CmpSectionChainPosition(
                                      self.elders_info, other.elders_info, chain)
                      elders_info ==
                          IF position = "Less" THEN other.elders_info
                          ELSE IF /\ position = "Equal"
                                  /\ Cardinality(self.elders_info.value.elders)
                                        < Cardinality(other.elders_info.value.elders)
                               THEN other.elders_info
                          ELSE self.elders_info
                      members == RemoveNotMatchingOurPrefix(
                                     PeersMerge(self.members, other.members, chain),
                                     elders_info.value.prefix)
                  IN  [result |-> "Ok",
                       section |-> Section(members, elders_info, chain)]

\* merge that does not prune the members by the prefix it ends with.
MergeWithoutPruning(self, other) ==
    IF ~ChainSelfVerify(other.chain)
    THEN [result |-> "InvalidMessage", section |-> self]
    ELSE LET merged == ChainMerge(self.chain, other.chain)
         IN  IF ~merged.ok
             THEN [result |-> "UntrustedMessage", section |-> self]
             ELSE LET chain == merged.chain
                      position == CmpSectionChainPosition(
                                      self.elders_info, other.elders_info, chain)
                      elders_info ==
                          IF position = "Less" THEN other.elders_info
                          ELSE IF /\ position = "Equal"
                                  /\ Cardinality(self.elders_info.value.elders)
                                        < Cardinality(other.elders_info.value.elders)
                               THEN other.elders_info
                          ELSE self.elders_info
                      members == PeersMerge(self.members, other.members, chain)
                  IN  [result |-> "Ok",
                       section |-> Section(members, elders_info, chain)]

\* Section::merge: [result, section].
\* merge that reconciles the chains but never takes the other's elders_info.
MergeKeepingOwnEldersInfo(self, other) ==
    IF ~ChainSelfVerify(other.chain)
    THEN [result |-> "InvalidMessage", section |-> self]
    ELSE LET merged == ChainMerge(self.chain, other.chain)
         IN  IF ~merged.ok
             THEN [result |-> "UntrustedMessage", section |-> self]
             ELSE [result |-> "Ok",
                   section |-> Section(
                       RemoveNotMatchingOurPrefix(
                           PeersMerge(self.members, other.members, merged.chain),
                           self.elders_info.value.prefix),
                       self.elders_info, merged.chain)]

SectionMerge(self, other) ==
    IF ~ChainSelfVerify(other.chain)
    THEN [result |-> "InvalidMessage", section |-> self]
    ELSE LET merged == ChainMerge(self.chain, other.chain)
         IN  IF ~merged.ok
             THEN [result |-> "UntrustedMessage", section |-> self]
             ELSE LET chain == merged.chain
                      position == CmpSectionChainPosition(
                                      self.elders_info, other.elders_info, chain)
                      elders_info ==
                          IF position = "Less" THEN other.elders_info
                          ELSE IF /\ position = "Equal"
                                  /\ Cardinality(self.elders_info.value.elders)
                                        < Cardinality(other.elders_info.value.elders)
                               THEN other.elders_info
                          ELSE self.elders_info
                      members == RemoveNotMatchingOurPrefix(
                                     PeersMerge(self.members, other.members, chain),
                                     elders_info.value.prefix)
                  IN  [result |-> "Ok",
                       section |-> Section(members, elders_info, chain)]

\* update_elders that checks the signature but not that its key is in the chain.
UpdateEldersAnyKey(self, new_elders_info) ==
    IF ~ProvenSelfVerify(new_elders_info)
    THEN [result |-> FALSE, section |-> self]
    ELSE IF new_elders_info # self.elders_info
    THEN [result |-> TRUE,
          section |-> Section(
              RemoveNotMatchingOurPrefix(self.members,
                                         new_elders_info.value.prefix),
              new_elders_info, self.chain)]
    ELSE [result |-> FALSE, section |-> self]

\* update_elders that forgets to prune the members.
UpdateEldersNoPrune(self, new_elders_info) ==
    IF ~ProvenVerify(new_elders_info, self.chain)
    THEN [result |-> FALSE, section |-> self]
    ELSE IF new_elders_info # self.elders_info
    THEN [result |-> TRUE,
          section |-> Section(self.members, new_elders_info, self.chain)]
    ELSE [result |-> FALSE, section |-> self]

\* Section::update_elders: [result, section].
SectionUpdateElders(self, new_elders_info) ==
    IF ~ProvenVerify(new_elders_info, self.chain)
    THEN [result |-> FALSE, section |-> self]
    ELSE IF new_elders_info # self.elders_info
    THEN [result |-> TRUE,
          section |-> Section(
              RemoveNotMatchingOurPrefix(self.members,
                                         new_elders_info.value.prefix),
              new_elders_info, self.chain)]
    ELSE [result |-> FALSE, section |-> self]

\* update_chain that accepts a link signed by any key of the chain.
UpdateChainSignedByAnyKey(self, key, signature) ==
    IF \E k \in Range(ChainKeys(self.chain)) : Verify(k, signature, key)
    THEN [result |-> TRUE,
          section |-> [self EXCEPT !.chain.tail = Append(@, Block(key, signature))]]
    ELSE [result |-> FALSE, section |-> self]

\* Section::update_chain: [result, section].
SectionUpdateChain(self, key, signature) ==
    LET pushed == ChainPush(self.chain, key, signature)
    IN  [result |-> pushed.ok, section |-> [self EXCEPT !.chain = pushed.chain]]

\* update_member that records every entry whose proof verifies.
UpdateMemberWithoutPrecedence(self, member_info, proof) ==
    LET new  == Proven(member_info, proof)
        name == member_info.peer.name
    IN  IF ProvenVerify(new, self.chain)
        THEN [result |-> TRUE,
              section |-> [self EXCEPT !.members =
                  [n \in DOMAIN self.members \cup {name} |->
                      IF n = name THEN new ELSE self.members[n]]]]
        ELSE [result |-> FALSE, section |-> self]

\* Section::update_member: [result, section].
SectionUpdateMember(self, member_info, proof) ==
    LET updated == PeersUpdate(self.members, member_info, proof, self.chain)
    IN  [result |-> updated.changed,
         section |-> [self EXCEPT !.members = updated.members]]

\* to_minimal with the whole chain kept.
ToMinimalKeepingChain(self) ==
    IF IndexOf(self.chain, self.elders_info.proof.public_key) = NoIndex
    THEN << >>
    ELSE <<Section(NoMembers, self.elders_info, self.chain)>>

\* Section::elders_info_signing_key_index: NoIndex where the code panics
\* ("EldersInfo signed with unknown key").
EldersInfoSigningKeyIndex(self) ==
    IndexOf(self.chain, self.elders_info.proof.public_key)

\* Section::to_minimal: <<section>>, or << >> for a panic.
SectionToMinimal(self) ==
    LET first_key_index == EldersInfoSigningKeyIndex(self)
    IN  IF first_key_index = NoIndex THEN << >>
        ELSE <<Section(NoMembers, self.elders_info,
                       ChainSlice(self.chain, first_key_index))>>

\* create_proof_chain_for_our_info that starts at their_knowledge whenever it
\* is given; a slice that starts past the end of the chain panics.
CreateProofChainFromTheirKnowledge(self, their_knowledge) ==
    LET first_index == EldersInfoSigningKeyIndex(self)
        from == IF their_knowledge = NoIndex THEN first_index ELSE their_knowledge
    IN  IF first_index = NoIndex \/ from >= ChainLen(self.chain) THEN << >>
        ELSE <<ChainSlice(self.chain, from)>>

\* Section::create_proof_chain_for_our_info: <<chain>>, or << >> for a panic.
\* their_knowledge is NoIndex for None.
CreateProofChainForOurInfo(self, their_knowledge) ==
    LET first_index == EldersInfoSigningKeyIndex(self)
        from == Min(IF their_knowledge = NoIndex THEN first_index
                    ELSE their_knowledge,
                    first_index)
    IN  IF first_index = NoIndex THEN << >>
        ELSE <<ChainSlice(self.chain, from)>>

\* try_split that is content with one side having enough adults.
TrySplitOneSideEnough(self, our_name) ==
    LET prefix == self.elders_info.value.prefix
    IN  IF Len(prefix) >= NameBits THEN << >>
        ELSE
        LET next_bit_index == Len(prefix)
            next_bit == NameBit(our_name, next_bit_index)
            adults == Adults(self.members)
            our_new_size ==
                Cardinality({n \in adults : NameBit(n, next_bit_index) = next_bit})
            sibling_new_size ==
                Cardinality({n \in adults : NameBit(n, next_bit_index) # next_bit})
        IN  IF /\ our_new_size < RecommendedSectionSize
               /\ sibling_new_size < RecommendedSectionSize
            THEN << >>
            ELSE
            LET our_prefix == Pushed(prefix, next_bit)
                other_prefix == Pushed(prefix, 1 - next_bit)
                our_elders == ElderCandidatesMatchingPrefix(
                    self.members, our_prefix, ElderSize, self.elders_info.value)
                other_elders == ElderCandidatesMatchingPrefix(
                    self.members, other_prefix, ElderSize, self.elders_info.value)
            IN  <<EldersInfoNew(our_elders, our_prefix),
                  EldersInfoNew(other_elders, other_prefix)>>

\* try_split that returns the sibling's EldersInfo first.
TrySplitSiblingFirst(self, our_name) ==
    LET prefix == self.elders_info.value.prefix
    IN  IF Len(prefix) >= NameBits THEN << >>
        ELSE
        LET next_bit_index == Len(prefix)
            next_bit == NameBit(our_name, next_bit_index)
            adults == Adults(self.members)
            our_new_size ==
                Cardinality({n \in adults : NameBit(n, next_bit_index) = next_bit})
            sibling_new_size ==
                Cardinality({n \in adults : NameBit(n, next_bit_index) # next_bit})
        IN  IF \/ our_new_size < RecommendedSectionSize
               \/ sibling_new_size < RecommendedSectionSize
            THEN << >>
            ELSE
            LET our_prefix == Pushed(prefix, next_bit)
                other_prefix == Pushed(prefix, 1 - next_bit)
                our_elders == ElderCandidatesMatchingPrefix(
                    self.members, our_prefix, ElderSize, self.elders_info.value)
                other_elders == ElderCandidatesMatchingPrefix(
                    self.members, other_prefix, ElderSize, self.elders_info.value)
            IN  <<EldersInfoNew(other_elders, other_prefix),
                  EldersInfoNew(our_elders, our_prefix)>>

\* try_split that picks the elders of both sides among all the adults.
TrySplitAnyCandidates(self, our_name) ==
    LET prefix == self.elders_info.value.prefix
    IN  IF Len(prefix) >= NameBits THEN << >>
        ELSE
        LET next_bit_index == Len(prefix)
            next_bit == NameBit(our_name, next_bit_index)
            adults == Adults(self.members)
            our_new_size ==
                Cardinality({n \in adults : NameBit(n, next_bit_index) = next_bit})
            sibling_new_size ==
                Cardinality({n \in adults : NameBit(n, next_bit_index) # next_bit})
        IN  IF \/ our_new_size < RecommendedSectionSize
               \/ sibling_new_size < RecommendedSectionSize
            THEN << >>
            ELSE
            LET our_prefix == Pushed(prefix, next_bit)
                other_prefix == Pushed(prefix, 1 - next_bit)
                our_elders == PeersElderCandidates(
                    self.members, ElderSize, self.elders_info.value)
                other_elders == PeersElderCandidates(
                    self.members, ElderSize, self.elders_info.value)
            IN  <<EldersInfoNew(our_elders, our_prefix),
                  EldersInfoNew(other_elders, other_prefix)>>

\* Section::try_split: <<our_info, other_info>>, or << >> for None.
SectionTrySplit(self, our_name) ==
    LET prefix == self.elders_info.value.prefix
    IN  IF Len(prefix) >= NameBits THEN << >>
        ELSE
        LET next_bit_index == Len(prefix)
            next_bit == NameBit(our_name, next_bit_index)
            adults == Adults(self.members)
            our_new_size ==
                Cardinality({n \in adults : NameBit(n, next_bit_index) = next_bit})
            sibling_new_size ==
                Cardinality({n \in adults : NameBit(n, next_bit_index) # next_bit})
        IN  IF \/ our_new_size < RecommendedSectionSize
               \/ sibling_new_size < RecommendedSectionSize
            THEN << >>
            ELSE
            LET our_prefix == Pushed(prefix, next_bit)
                other_prefix == Pushed(prefix, 1 - next_bit)
                our_elders == ElderCandidatesMatchingPrefix(
                    self.members, our_prefix, ElderSize, self.elders_info.value)
                other_elders == ElderCandidatesMatchingPrefix(
                    self.members, other_prefix, ElderSize, self.elders_info.value)
            IN  <<EldersInfoNew(our_elders, our_prefix),
                  EldersInfoNew(other_elders, other_prefix)>>

\* Section::elder_candidates
SectionElderCandidates(self, elder_size) ==
    PeersElderCandidates(self.members, elder_size, self.elders_info.value)

\* promote_and_demote_elders without the refusal to shrink below a majority.
PromoteAndDemoteAnySize(self, our_name) ==
    LET split == SectionTrySplit(self, our_name)
        expected_elders == SectionElderCandidates(self, ElderSize)
        current_elders == self.elders_info.value.elders
    IN  IF split # << >> THEN split
        ELSE IF expected_elders = current_elders THEN << >>
        ELSE <<EldersInfoNew(expected_elders, self.elders_info.value.prefix)>>

\* promote_and_demote_elders that never considers a split.
PromoteAndDemoteNoSplit(self, our_name) ==
    LET expected_elders == SectionElderCandidates(self, ElderSize)
        current_elders == self.elders_info.value.elders
    IN  IF expected_elders = current_elders THEN << >>
        ELSE IF Cardinality(expected_elders)
                    < majority_count(Cardinality(current_elders))
        THEN << >>
        ELSE <<EldersInfoNew(expected_elders, self.elders_info.value.prefix)>>

\* Section::promote_and_demote_elders: the EldersInfos to vote for.
PromoteAndDemoteElders(self, our_name) ==
    LET split == SectionTrySplit(self, our_name)
        expected_elders == SectionElderCandidates(self, ElderSize)
        current_elders == self.elders_info.value.elders
    IN  IF split # << >> THEN split
        ELSE IF expected_elders = current_elders THEN << >>
        ELSE IF Cardinality(expected_elders)
                    < majority_count(Cardinality(current_elders))
        THEN << >>
        ELSE <<EldersInfoNew(expected_elders, self.elders_info.value.prefix)>>

(***************************************************************************)
(* Input universes.                                                        *)
(*                                                                         *)
(* Keys are numbered in the order the network generated them, so a genuine *)
(* signature over a key is always made by an older key.  NoKey stands for  *)
(* the signer of a forged signature, which verifies under no key.          *)
(***************************************************************************)
NoKey == -1

\* The peers of the network: one name in each half of the name space.
PeerNames == {0, 2 ^ NameBits - 1}

\* The chains the network can produce, up to length n.
RECURSIVE GenuineChains(_)
GenuineChains(n) ==
    IF n = 1 THEN {ChainNew(k) : k \in Keys}
    ELSE GenuineChains(n - 1) \cup
         {ChainPush(c, k, Sign(LastKey(c), k)).chain :
            c \in GenuineChains(n - 1), k \in Keys}

NetworkChains ==
    {c \in GenuineChains(MaxChainLen) :
        \A i \in 1 .. Len(c.tail) : ChainKeys(c)[i] < c.tail[i].key}

\* A chain whose last link carries a forged signature.
Tampered(chain) ==
    [chain EXCEPT !.tail[Len(chain.tail)].signature =
        Sign(NoKey, chain.tail[Len(chain.tail)].key)]

TamperedChains == {Tampered(c) : c \in {d \in NetworkChains : ChainLen(d) > 1}}

\* EldersInfos over the peers.
EldersInfos ==
    {EldersInfoNew(elders, prefix) :
        elders \in {e \in SUBSET PeerNames : Cardinality(e) <= ElderSize},
        prefix \in Prefixes} \ {EldersInfoNew({}, prefix) : prefix \in Prefixes}

\* A value with a proof that names `key` but carries a forged signature.
ForgedBy(value, key) == Proven(value, Proof(key, Sign(NoKey, value)))

GenuineEldersInfos == {ProvenBy(info, key) : info \in EldersInfos, key \in Keys}

ProvenEldersInfos ==
    GenuineEldersInfos \cup {ForgedBy(info, key) : info \in EldersInfos, key \in Keys}

MemberInfos(names, ages, states) ==
    {MemberInfo(Peer(name, age), state) :
        name \in names, age \in ages, state \in states}

GenuineMemberInfos(names, ages, states) ==
    {ProvenBy(info, key) : info \in MemberInfos(names, ages, states), key \in Keys}

ProvenMemberInfos(names, ages, states) ==
    GenuineMemberInfos(names, ages, states)
    \cup {ForgedBy(info, key) :
            info \in MemberInfos(names, ages, states), key \in Keys}

(***************************************************************************)
(* The state machine of one node's Section.  `section` is the node's       *)
(* Section; `call` records the call the node has just handled (operation,  *)
(* argument, returned value and the Section before it) until the node      *)
(* returns to its event loop.  `node` is the rest of the node's state: its *)
(* stage and what the stage holds, or its MemberKnowledge; NoNode where    *)
(* only the Section is followed, and NoSection for a node without one.     *)
(***************************************************************************)
VARIABLES section, call, node

vars == <<section, call, node>>

NoNode == [stage |-> "none"]

NoSection == [members |-> NoMembers]

Call(op, arg, result, before) ==
    [op |-> op, arg |-> arg, result |-> result, before |-> before]

Idle == [op |-> "idle"]

\* Section::new with a chain and a verified EldersInfo signed by a key of it.
NewSections ==
    {SectionNew(chain, info) :
        chain \in NetworkChains,
        info \in GenuineEldersInfos}

Init ==
    /\ \/ \E s \in NewSections :
            /\ HasKey(s.chain, s.elders_info.proof.public_key)
            /\ section = s
       \/ \E key \in Keys, name \in PeerNames :
            section = SectionFirstNode(key, Peer(name, MIN_AGE))
    /\ call = Idle
    /\ node = NoNode

Merge(others) ==
    /\ call = Idle
    /\ \E other \in others :
        LET done == SectionMerge(section, other)
        IN  /\ section' = done.section
            /\ call' = Call("merge", other, done.result, section)
    /\ UNCHANGED node

UpdateElders ==
    /\ call = Idle
    /\ \E new_elders_info \in ProvenEldersInfos :
        LET done == SectionUpdateElders(section, new_elders_info)
        IN  /\ section' = done.section
            /\ call' = Call("update_elders", new_elders_info, done.result, section)
    /\ UNCHANGED node

UpdateChain ==
    /\ call = Idle
    /\ \E key \in Keys, signer \in Keys \cup {NoKey} :
        LET signature == Sign(signer, key)
            done == SectionUpdateChain(section, key, signature)
        IN  /\ signer < key
            /\ ChainLen(done.section.chain) <= MaxChainLen
            /\ section' = done.section
            /\ call' = Call("update_chain", <<key, signature>>, done.result, section)
    /\ UNCHANGED node

UpdateMember(members) ==
    /\ call = Idle
    /\ \E member \in members :
        LET done == SectionUpdateMember(section, member.value, member.proof)
        IN  /\ section' = done.section
            /\ call' = Call("update_member", member, done.result, section)
    /\ UNCHANGED node

PromoteAndDemote ==
    /\ call = Idle
    /\ \E our_name \in PeerNames :
        /\ section' = section
        /\ call' = Call("promote_and_demote_elders", our_name,
                        PromoteAndDemoteElders(section, our_name), section)
    /\ UNCHANGED node

\* The votes for the EldersInfos returned by promote_and_demote_elders reach
\* consensus: one of them comes back signed by the section's current key and
\* is handed to update_elders.
HandleEldersInfo ==
    /\ call = Idle
    /\ \E our_name \in PeerNames :
        LET votes == PromoteAndDemoteElders(section, our_name)
        IN  \E i \in 1 .. Len(votes) :
            LET new_elders_info == ProvenBy(votes[i], LastKey(section.chain))
                done == SectionUpdateElders(section, new_elders_info)
            IN  /\ section' = done.section
                /\ call' = Call("update_elders", new_elders_info,
                                done.result, section)
    /\ UNCHANGED node

CreateProofChain ==
    /\ call = Idle
    /\ \E their_knowledge \in {NoIndex} \cup (0 .. MaxChainLen + 1) :
        call' = Call("create_proof_chain_for_our_info", their_knowledge,
                     CreateProofChainForOurInfo(section, their_knowledge),
                     section)
    /\ UNCHANGED section
    /\ UNCHANGED node

ToMinimal ==
    /\ call = Idle
    /\ call' = Call("to_minimal", << >>, SectionToMinimal(section), section)
    /\ UNCHANGED section
    /\ UNCHANGED node

\* The node is done with the call and waits for the next one.
Return ==
    /\ call # Idle
    /\ call' = Idle
    /\ UNCHANGED <<section, node>>

\* The views of the section that gossip can deliver: any chain of the network
\* with any proven EldersInfo, genuine or forged, and any tampered chain with
\* an EldersInfo signed by its last key.
GossipViews ==
    {Section(NoMembers, info, chain) :
        info \in ProvenEldersInfos, chain \in NetworkChains}
    \cup {Section(NoMembers, ProvenBy(info, LastKey(chain)), chain) :
            info \in EldersInfos, chain \in TamperedChains}

JoiningMembers == ProvenMemberInfos(PeerNames, {MIN_AGE}, {"Joined"})

Next ==
    \/ Merge(GossipViews)
    \/ UpdateElders
    \/ UpdateChain
    \/ UpdateMember(JoiningMembers)
    \/ Return

Spec == Init /\ [][Next]_vars

(***************************************************************************)
(* Proof chains for the section's own EldersInfo: the chain and the        *)
(* EldersInfo change by merge, update_elders and update_chain, and the     *)
(* section cuts the proof chain for a recipient that trusts the key at     *)
(* index their_knowledge, or for one of which nothing is known.            *)
(***************************************************************************)
NextChain ==
    \/ Merge(GossipViews)
    \/ UpdateElders
    \/ UpdateChain
    \/ CreateProofChain
    \/ Return

SpecChain == Init /\ [][NextChain]_vars

(***************************************************************************)
(* Minimal copies: the section records members, replaces its elders and    *)
(* extends its chain, and hands out the minimal copy of itself (what a     *)
(* node needs to verify the current EldersInfo).                           *)
(***************************************************************************)
NextMinimal ==
    \/ UpdateElders
    \/ UpdateChain
    \/ UpdateMember(JoiningMembers)
    \/ ToMinimal
    \/ Return

SpecMinimal == Init /\ [][NextMinimal]_vars

(***************************************************************************)
(* Genesis: a peer of any name and age starts the network with a fresh     *)
(* random key; the call record holds the peer and the key of the           *)
(* SectionKeyShare that first_node returns.  Members then join and the     *)
(* chain grows.                                                            *)
(***************************************************************************)
InitGenesis ==
    /\ \E key \in Keys, name \in Names, age \in Ages :
        /\ section = SectionFirstNode(key, Peer(name, age))
        /\ call = Call("first_node", Peer(name, age), key, section)
    /\ node = NoNode

NextGenesis ==
    \/ UpdateMember(JoiningMembers)
    \/ UpdateChain
    \/ Return

SpecGenesis == InitGenesis /\ [][NextGenesis]_vars

(***************************************************************************)
(* Versions: an EldersInfo as the data model describes it, with the        *)
(* version its proposer gave it.  The section starts with an EldersInfo of *)
(* version 0 and is handed EldersInfos of every version, signed by the     *)
(* section under any of its keys or forged; its chain grows.               *)
(***************************************************************************)
VersionedEldersInfo(info, version) ==
    [elders |-> info.elders, prefix |-> info.prefix, version |-> version]

VersionedEldersInfos ==
    {VersionedEldersInfo(info, version) :
        info \in EldersInfos, version \in 0 .. MaxVersion}

ProvenVersionedEldersInfos ==
    {ProvenBy(info, key) : info \in VersionedEldersInfos, key \in Keys}
        \cup {ForgedBy(info, key) : info \in VersionedEldersInfos, key \in Keys}

InitVersions ==
    /\ \E info \in EldersInfos :
            section = SectionNew(ChainNew(0),
                                 ProvenBy(VersionedEldersInfo(info, 0), 0))
    /\ call = Idle
    /\ node = NoNode

UpdateVersionedElders ==
    /\ call = Idle
    /\ \E new_elders_info \in ProvenVersionedEldersInfos :
        LET done == SectionUpdateElders(section, new_elders_info)
        IN  /\ section' = done.section
            /\ call' = Call("update_elders", new_elders_info, done.result, section)
    /\ UNCHANGED node

NextVersions ==
    \/ UpdateVersionedElders
    \/ UpdateChain
    \/ Return

SpecVersions == InitVersions /\ [][NextVersions]_vars

(***************************************************************************)
(* MemberKnowledge: what a node knows about its own section, updated with  *)
(* the knowledge that other members report.                                *)
(***************************************************************************)
MemberKnowledge(elders_version, parsec_version) ==
    [elders_version |-> elders_version, parsec_version |-> parsec_version]

\* u64::max
Max(a, b) == IF a >= b THEN a ELSE b

\* MemberKnowledge::update that takes the reported knowledge as it is.
UpdateOverwriting(self, other) == other

\* MemberKnowledge::update: the value of self after the call.
MemberKnowledgeUpdate(self, other) ==
    MemberKnowledge(Max(self.elders_version, other.elders_version),
                    Max(self.parsec_version, other.parsec_version))

MemberKnowledges ==
    {MemberKnowledge(e, p) : e \in 0 .. MaxVersion, p \in 0 .. MaxVersion}

\* #[derive(Default)]: both versions are 0.
InitKnowledge ==
    /\ section = NoSection
    /\ call = Idle
    /\ node = [stage |-> "none", knowledge |-> MemberKnowledge(0, 0)]

UpdateKnowledge ==
    /\ call = Idle
    /\ \E other \in MemberKnowledges :
        /\ node' = [node EXCEPT !.knowledge = MemberKnowledgeUpdate(@, other)]
        /\ call' = Call("update", other, << >>, node.knowledge)
    /\ UNCHANGED section

NextKnowledge ==
    \/ UpdateKnowledge
    \/ Return

SpecKnowledge == InitKnowledge /\ [][NextKnowledge]_vars

(***************************************************************************)
(* The Bootstrapping stage: a node that looks for the section to join.     *)
(* The names of joining nodes are IdBits wide, so that a relocated node    *)
(* can be named within a prefix extra_split_count bits longer than the     *)
(* prefix of the section it joins.                                         *)
(***************************************************************************)
Ids == 0 .. (2 ^ IdBits - 1)

Addrs == 1 .. MaxAddrs

\* XorName::bit(i) of a name of a joining node.
IdBit(name, i) == (name \div (2 ^ (IdBits - 1 - i))) % 2

\* Prefix::new(bit_count, name): the first bit_count bits of the name, at most
\* as many as a name has.
PrefixNew(bit_count, name) ==
    [i \in 1 .. Min(bit_count, IdBits) |-> IdBit(name, i - 1)]

\* Prefix::matches
IdMatches(prefix, name) ==
    \A i \in 1 .. Len(prefix) : IdBit(name, i - 1) = prefix[i]

\* Prefix::range_inclusive: the names from the lower to the upper bound of the
\* prefix, which are the names it matches.
RangeInclusive(prefix) == {name \in Ids : IdMatches(prefix, name)}

\* SignedRelocateDetails: the destination is all that the stage reads.
SignedRelocateDetails(destination) == [destination |-> destination]

\* RelocatePayload::new: the details and the new name signed with the old id.
RelocatePayloadNew(relocate_details, new_public_id, old_full_id) ==
    [details |-> relocate_details,
     signature_of_new_id_with_old_id |-> Sign(old_full_id, new_public_id)]

\* Bootstrapping::new; the Option fields are << >> for None, <<x>> for Some(x).
BootstrappingNew(relocate_details, full_id) ==
    [stage |-> "Bootstrapping",
     relocate_details |-> relocate_details,
     full_id |-> full_id]

\* Joining::new, as far as the stage hands it its fields.
JoiningNew(elders_info, section_key, relocate_payload, full_id) ==
    [stage |-> "Joining",
     elders_info |-> elders_info,
     section_key |-> section_key,
     relocate_payload |-> relocate_payload,
     full_id |-> full_id]

\* The outcome of a handler: the value returned ("Err" for an error), the
\* stage after it and the messages sent, in order.
Outcome(result, stage, sent) == [result |-> result, stage |-> stage, sent |-> sent]

BootstrapRequest(dst, name) == [dst |-> dst, variant |-> "BootstrapRequest", name |-> name]

\* send_bootstrap_request that always carries the node's own name.
SendOwnName(self, dst, delivered) ==
    IF delivered
    THEN [result |-> "Ok", stage |-> self,
          sent |-> <<BootstrapRequest(dst, self.full_id)>>]
    ELSE [result |-> "Err", stage |-> self, sent |-> << >>]

\* Bootstrapping::send_bootstrap_request; `delivered` is whether the send
\* succeeds.
SendBootstrapRequest(self, dst, delivered) ==
    LET xorname == IF self.relocate_details # << >>
                   THEN self.relocate_details[1].destination
                   ELSE self.full_id
    IN  IF delivered
        THEN Outcome("Ok", self, <<BootstrapRequest(dst, xorname)>>)
        ELSE Outcome("Err", self, << >>)

\* reconnect_to_new_section that goes on to the next address after a send
\* that fails.
RECURSIVE ReconnectIgnoringFailures(_, _, _)
ReconnectIgnoringFailures(self, new_conn_infos, fail_at) ==
    IF new_conn_infos = << >>
    THEN [result |-> "Ok", stage |-> self, sent |-> << >>]
    ELSE LET xorname == IF self.relocate_details # << >>
                        THEN self.relocate_details[1].destination
                        ELSE self.full_id
             rest == ReconnectIgnoringFailures(self, Tail(new_conn_infos),
                                               fail_at - 1)
         IN  [rest EXCEPT !.sent =
                (IF fail_at = 1 THEN << >>
                 ELSE <<BootstrapRequest(Head(new_conn_infos), xorname)>>) \o @]

\* Bootstrapping::reconnect_to_new_section; the send to the address at index
\* `fail_at` fails (none fails if there is no such index).
RECURSIVE ReconnectToNewSection(_, _, _)
ReconnectToNewSection(self, new_conn_infos, fail_at) ==
    IF new_conn_infos = << >> THEN Outcome("Ok", self, << >>)
    ELSE LET first == SendBootstrapRequest(self, Head(new_conn_infos), fail_at # 1)
         IN  IF first.result = "Err" THEN first
             ELSE LET rest == ReconnectToNewSection(self, Tail(new_conn_infos),
                                                    fail_at - 1)
                  IN  Outcome(rest.result, rest.stage, first.sent \o rest.sent)

extra_split_count == 3

\* FullId::within_range: a random name of the range, the one that the state
\* of the generator picks.
WithinRange(rng, range) ==
    CHOOSE name \in range :
        Cardinality({lower \in range : lower < name}) = rng % Cardinality(range)

\* join_section that names the node within the prefix of the section.
JoinSectionWithinSectionPrefix(self, elders_info, rng, signed) ==
    IF self.relocate_details = << >> THEN Outcome(<< >>, self, << >>)
    ELSE LET relocate_details == self.relocate_details[1]
             taken == [self EXCEPT !.relocate_details = << >>]
             name_prefix == PrefixNew(Len(elders_info.prefix),
                                      relocate_details.destination)
             new_full_id == WithinRange(rng, RangeInclusive(name_prefix))
         IN  IF ~signed THEN Outcome("Err", taken, << >>)
             ELSE Outcome(<<RelocatePayloadNew(relocate_details, new_full_id,
                                               self.full_id)>>,
                          [taken EXCEPT !.full_id = new_full_id], << >>)

\* Bootstrapping::join_section: the result is the Option<RelocatePayload> or
\* "Err".  `rng` is the state of the random generator and `signed` whether
\* RelocatePayload::new succeeds.
JoinSection(self, elders_info, rng, signed) ==
    IF self.relocate_details = << >> THEN Outcome(<< >>, self, << >>)
    ELSE LET relocate_details == self.relocate_details[1]
             taken == [self EXCEPT !.relocate_details = << >>]
             name_prefix == PrefixNew(Len(elders_info.prefix) + extra_split_count,
                                      relocate_details.destination)
             new_full_id == WithinRange(rng, RangeInclusive(name_prefix))
         IN  IF ~signed THEN Outcome("Err", taken, << >>)
             ELSE Outcome(<<RelocatePayloadNew(relocate_details, new_full_id,
                                               self.full_id)>>,
                          [taken EXCEPT !.full_id = new_full_id], << >>)

\* Bootstrapping::handle_bootstrap_response: the result is the
\* Option<JoinParams> or "Err".
HandleBootstrapResponse(self, sender, response, rng, signed, fail_at) ==
    IF response.kind = "Join"
    THEN LET joined == JoinSection(self, response.elders_info, rng, signed)
         IN  IF joined.result = "Err" THEN joined
             ELSE Outcome(<<[elders_info |-> response.elders_info,
                             section_key |-> response.section_key,
                             relocate_payload |-> joined.result]>>,
                          joined.stage, << >>)
    ELSE LET sent == ReconnectToNewSection(self, response.new_conn_infos, fail_at)
         IN  IF sent.result = "Err" THEN sent
             ELSE Outcome(<< >>, sent.stage, sent.sent)

\* process_message that takes a BootstrapResponse whatever its verification.
ProcessUnverifiedMessage(self, sender, msg, rng, signed, fail_at, started) ==
    IF msg.variant = "BootstrapResponse"
    THEN IF msg.src # "Node"
         THEN Outcome("Err", self, << >>)
         ELSE LET handled == HandleBootstrapResponse(self, sender, msg.response,
                                                     rng, signed, fail_at)
              IN  IF handled.result = "Err" \/ handled.result = << >>
                  THEN handled
                  ELSE IF ~started THEN Outcome("Err", handled.stage, << >>)
                  ELSE LET params == handled.result[1]
                       IN  Outcome(<<JoiningNew(params.elders_info,
                                                params.section_key,
                                                params.relocate_payload,
                                                handled.stage.full_id)>>,
                                   handled.stage, << >>)
    ELSE Outcome(<< >>, self, << >>)

\* Bootstrapping::process_message: the result is the Option<Joining> or
\* "Err".  `started` is whether Joining::new succeeds.
ProcessMessage(self, sender, msg, rng, signed, fail_at, started) ==
    IF msg.variant = "BootstrapResponse"
    THEN IF msg.verify # "Full" \/ msg.src # "Node"
         THEN Outcome("Err", self, << >>)
         ELSE LET handled == HandleBootstrapResponse(self, sender, msg.response,
                                                     rng, signed, fail_at)
              IN  IF handled.result = "Err" \/ handled.result = << >>
                  THEN handled
                  ELSE IF ~started THEN Outcome("Err", handled.stage, << >>)
                  ELSE LET params == handled.result[1]
                       IN  Outcome(<<JoiningNew(params.elders_info,
                                                params.section_key,
                                                params.relocate_payload,
                                                handled.stage.full_id)>>,
                                   handled.stage, << >>)
    ELSE Outcome(<< >>, self, << >>)

\* The variants that process_message only logs.
OtherVariants ==
    {"NeighbourInfo", "UserMessage", "BouncedUntrustedMessage", "NodeApproval",
     "Sync", "Relocate", "RelocatePromise", "MessageSignature",
     "BootstrapRequest", "JoinRequest", "Ping", "BouncedUnknownMessage", "Vote",
     "DKGResult", "DKGStart", "DKGMessage"}

\* The EldersInfos offered to a joining node: one per prefix of up to two
\* bits, with the lowest name of the prefix as elder.
JoinEldersInfos ==
    {[elders |-> {CHOOSE e \in RangeInclusive(PrefixNew(bits, name)) :
                    \A o \in RangeInclusive(PrefixNew(bits, name)) : e <= o},
      prefix |-> PrefixNew(bits, name)] :
        bits \in 0 .. 2, name \in Ids}

BootstrapResponses ==
    {[kind |-> "Join", elders_info |-> info, section_key |-> key] :
        info \in JoinEldersInfos, key \in Keys}
    \cup {[kind |-> "Rebootstrap", new_conn_infos |-> addrs] :
            addrs \in UNION {[1 .. n -> Addrs] : n \in 0 .. MaxAddrs}}

\* Message::verify(iter::empty()) and require_full: "Full", "Unknown" (no
\* trusted key to verify against) or "Invalid" (bad signature); the source is
\* a node or a section.
Messages ==
    {[variant |-> "BootstrapResponse", response |-> response,
      verify |-> verify, src |-> src] :
        response \in BootstrapResponses,
        verify \in {"Full", "Unknown", "Invalid"},
        src \in {"Node", "Section"}}
    \cup {[variant |-> variant, verify |-> verify, src |-> src] :
            variant \in OtherVariants,
            verify \in {"Full", "Invalid"},
            src \in {"Node"}}

\* The addresses a BootstrapRequest was sent to.  The stage does not keep
\* them (its pending_requests field is commented out); `requested` follows
\* them next to the stage so that properties can speak of the peers that were
\* contacted.
Requested(stage, requested) == [stage |-> stage, requested |-> requested]

Destinations(sent) == {sent[i].dst : i \in 1 .. Len(sent)}

\* A node of the lowest or the highest name starts to bootstrap, relocating to
\* some destination or not.
InitBootstrap ==
    /\ section = NoSection
    /\ call = Idle
    /\ \E full_id \in {0, 2 ^ IdBits - 1},
          relocate_details \in {<< >>} \cup
              {<<SignedRelocateDetails(d)>> : d \in Ids} :
            node = Requested(BootstrappingNew(relocate_details, full_id), {})

\* The stage the node is in after process_message: the caller replaces the
\* stage by the Joining it is handed.
StageAfter(done) ==
    IF done.result # "Err" /\ done.result # << >> THEN done.result[1]
    ELSE done.stage

\* What the random generator, the signing, the sends and Joining::new can
\* do while `msg` is handled: a name is drawn only by a relocating node that is
\* told to join, and only a Rebootstrap sends.
IsJoin(msg) ==
    /\ msg.variant = "BootstrapResponse"
    /\ msg.verify = "Full"
    /\ msg.src = "Node"
    /\ msg.response.kind = "Join"

Rngs(self, msg) ==
    IF IsJoin(msg) /\ self.relocate_details # << >> THEN 0 .. MaxRng ELSE {0}

Signings(self, msg) ==
    IF IsJoin(msg) /\ self.relocate_details # << >> THEN BOOLEAN ELSE {TRUE}

FailAts(msg) ==
    IF msg.variant = "BootstrapResponse" /\ msg.response.kind = "Rebootstrap"
    THEN 0 .. Len(msg.response.new_conn_infos)
    ELSE {0}

Startings(msg) == IF IsJoin(msg) THEN BOOLEAN ELSE {TRUE}

BootstrapProcessMessage ==
    /\ call = Idle
    /\ node.stage.stage = "Bootstrapping"
    /\ \E sender \in Addrs, msg \in Messages :
        \E rng \in Rngs(node.stage, msg), signed \in Signings(node.stage, msg),
           fail_at \in FailAts(msg), started \in Startings(msg) :
            LET done == ProcessMessage(node.stage, sender, msg, rng, signed,
                                       fail_at, started)
            IN  /\ node' = Requested(StageAfter(done),
                                     node.requested \cup Destinations(done.sent))
                /\ call' = Call("process_message",
                                [sender |-> sender, msg |-> msg], done, node)
    /\ UNCHANGED section

BootstrapSendRequest ==
    /\ call = Idle
    /\ node.stage.stage = "Bootstrapping"
    /\ \E dst \in Addrs, delivered \in BOOLEAN :
        LET done == SendBootstrapRequest(node.stage, dst, delivered)
        IN  /\ node' = Requested(done.stage,
                                 node.requested \cup Destinations(done.sent))
            /\ call' = Call("send_bootstrap_request", dst, done, node)
    /\ UNCHANGED section

NextBootstrap ==
    \/ BootstrapProcessMessage
    \/ BootstrapSendRequest
    \/ Return

SpecBootstrap == InitBootstrap /\ [][NextBootstrap]_vars

(***************************************************************************)
(* Gossip between members: the views carry member tables.  A view is what  *)
(* another node of the network holds: a chain of the network, the          *)
(* EldersInfo of the whole name space or of one of its halves and at most  *)
(* one member entry, joined or left, both signed by the last key of that   *)
(* chain.                                                                  *)
(***************************************************************************)
OneMember(member) == [n \in {member.value.peer.name} |-> member]

GossipEldersInfos ==
    {i \in GenuineEldersInfos :
        i.value.elders = {n \in PeerNames : Matches(i.value.prefix, n)}}

GossipMemberInfos ==
    GenuineMemberInfos(PeerNames, {MIN_AGE}, {"Joined", "Left"})

PeerViews ==
    {v \in {Section(members, info, chain) :
                members \in {NoMembers} \cup {OneMember(m) : m \in GossipMemberInfos},
                info \in GossipEldersInfos,
                chain \in NetworkChains} :
        /\ v.elders_info.proof.public_key = LastKey(v.chain)
        /\ \A n \in DOMAIN v.members :
                v.members[n].proof.public_key = LastKey(v.chain)}

InitGossip ==
    /\ \E v \in PeerViews : v.members = NoMembers /\ section = v
    /\ call = Idle
    /\ node = NoNode

NextGossip ==
    \/ Merge(PeerViews)
    \/ UpdateMember(GossipMemberInfos)
    \/ Return

SpecGossip == InitGossip /\ [][NextGossip]_vars

(***************************************************************************)
(* Elder churn in a section of two peers: the first node of the network,   *)
(* members joining, ageing and leaving, and the elder changes the section  *)
(* votes for.                                                              *)
(***************************************************************************)
ChurnMembers ==
    {m \in GenuineMemberInfos(PeerNames, Ages, {"Joined", "Left"}) :
        m.proof.public_key = 0}

InitChurn ==
    /\ \E name \in PeerNames : section = SectionFirstNode(0, Peer(name, MIN_AGE))
    /\ call = Idle
    /\ node = NoNode

NextChurn ==
    \/ UpdateMember(ChurnMembers)
    \/ PromoteAndDemote
    \/ HandleEldersInfo
    \/ Return

SpecChurn == InitChurn /\ [][NextChurn]_vars

(***************************************************************************)
(* Growth and split of a section: members of every name join, age and      *)
(* leave, and the section votes for and applies the elder changes and the  *)
(* splits that follow.  The section starts as the first node of the        *)
(* network, or with a prefix that is as long as a name.                    *)
(***************************************************************************)
SplitMembers ==
    {m \in GenuineMemberInfos(Names, Ages, {"Joined", "Left"}) :
        m.proof.public_key = 0}

\* The longest prefix there is: that of the section of name 0 alone.
FullPrefix == [i \in 1 .. NameBits |-> 0]

InitSplit ==
    /\ \/ section = SectionFirstNode(0, Peer(0, MIN_AGE))
       \/ section = SectionNew(ChainNew(0),
                               ProvenBy(EldersInfoNew({0}, FullPrefix), 0))
    /\ call = Idle
    /\ node = NoNode

NextSplit ==
    \/ UpdateMember(SplitMembers)
    \/ PromoteAndDemote
    \/ HandleEldersInfo
    \/ Return

SpecSplit == InitSplit /\ [][NextSplit]_vars

(***************************************************************************)
(* Vocabulary of the properties.                                           *)
(***************************************************************************)
\* The key that signed a proven value.
SigningKey(proven) == proven.proof.public_key

\* The two chains have a key in common.
ShareKey(chain, other) == \E k \in Keys : HasKey(chain, k) /\ HasKey(other, k)

\* `other` continues `chain`: it starts with all of `chain` and goes on.
StrictlyExtends(other, chain) ==
    /\ other.head = chain.head
    /\ Len(other.tail) > Len(chain.tail)
    /\ SubSeq(other.tail, 1, Len(chain.tail)) = chain.tail

\* prefix is equal to, or an extension of, other.
EqualOrExtension(prefix, other) == prefix = other \/ IsExtensionOf(prefix, other)

Called(op) == call.op = op

(***************************************************************************)
(* C1.  In every Section state reachable from Section::new or              *)
(* Section::first_node by merge, update_elders, update_chain and           *)
(* update_member calls, successful or failed, the chain self-verifies and  *)
(* contains the public key that signed the current elders_info.            *)
(***************************************************************************)
C1_ChainVerifiesAndHasEldersKey ==
    /\ ChainSelfVerify(section.chain)
    /\ HasKey(section.chain, SigningKey(section.elders_info))

\* A merge has extended the chain and adopted the other view's EldersInfo.
C1_Witness ==
    /\ Called("merge")
    /\ call.result = "Ok"
    /\ section.chain # call.before.chain
    /\ section.elders_info # call.before.elders_info

(***************************************************************************)
(* C2.  update_elders returns true only if the prefix of the new           *)
(* EldersInfo is equal to or an extension of the section's current prefix. *)
(***************************************************************************)
C2_AcceptsOnlyEqualOrExtendedPrefix ==
    (Called("update_elders") /\ call.result = TRUE)
        => EqualOrExtension(call.arg.value.prefix,
                            call.before.elders_info.value.prefix)

(***************************************************************************)
(* C3.  update_elders returns false and leaves elders_info, members and    *)
(* chain unchanged whenever the proof key of the new EldersInfo is not in  *)
(* the chain or its signature does not verify, and whenever the new        *)
(* EldersInfo equals the current one.                                      *)
(***************************************************************************)
C3_RejectedUpdateEldersChangesNothing ==
    (/\ Called("update_elders")
     /\ \/ ~HasKey(call.before.chain, SigningKey(call.arg))
        \/ ~ProvenSelfVerify(call.arg)
        \/ call.arg = call.before.elders_info)
        => (call.result = FALSE /\ section = call.before)

\* A genuinely signed EldersInfo whose key is not in the chain was offered.
C3_Witness ==
    /\ Called("update_elders")
    /\ ProvenSelfVerify(call.arg)
    /\ ~HasKey(call.before.chain, SigningKey(call.arg))
    /\ call.result = FALSE

(***************************************************************************)
(* C4.  When update_elders accepts, elders_info becomes exactly the new    *)
(* one, every entry of members has a name matching the new prefix, and the *)
(* chain is unchanged.                                                     *)
(***************************************************************************)
C4_AcceptedUpdateEldersReplacesAndPrunes ==
    (Called("update_elders") /\ call.result = TRUE)
        => /\ section.elders_info = call.arg
           /\ \A n \in DOMAIN section.members :
                   Matches(call.arg.value.prefix, n)
           /\ section.members =
                   Restrict(call.before.members, DOMAIN section.members)
           /\ section.chain = call.before.chain

\* An accepted update_elders has pruned a member.
C4_Witness ==
    /\ Called("update_elders")
    /\ call.result = TRUE
    /\ DOMAIN section.members # DOMAIN call.before.members

(***************************************************************************)
(* C5.  As claimed: merge with a view whose chain shares no key with the   *)
(* receiver's chain returns UntrustedMessage and leaves the receiver's     *)
(* Section as it was.                                                      *)
(***************************************************************************)
C5_Original_NoSharedKeyIsUntrusted ==
    (Called("merge") /\ ~ShareKey(call.before.chain, call.arg.chain))
        => (call.result = "UntrustedMessage" /\ section = call.before)

(***************************************************************************)
(* C5, amended.  merge with a view whose chain self-verifies and shares no *)
(* key with the receiver's chain returns UntrustedMessage and leaves the   *)
(* receiver's Section as it was.                                           *)
(***************************************************************************)
C5_VerifiedChainWithNoSharedKeyIsUntrusted ==
    (/\ Called("merge")
     /\ ChainSelfVerify(call.arg.chain)
     /\ ~ShareKey(call.before.chain, call.arg.chain))
        => (call.result = "UntrustedMessage" /\ section = call.before)

\* A view with a self-verifying chain of two keys, none of them ours, was merged.
C5_Witness ==
    /\ Called("merge")
    /\ ChainSelfVerify(call.arg.chain)
    /\ ChainLen(call.arg.chain) = 2
    /\ ~ShareKey(call.before.chain, call.arg.chain)
    /\ call.result = "UntrustedMessage"

(***************************************************************************)
(* C6.  merge returns InvalidMessage, without modifying the receiving      *)
(* Section, whenever the other view's chain does not self-verify, whether  *)
(* or not the chains could have been merged.                               *)
(***************************************************************************)
C6_UnverifiedChainIsInvalidMessage ==
    (Called("merge") /\ ~ChainSelfVerify(call.arg.chain))
        => (call.result = "InvalidMessage" /\ section = call.before)

\* A chain that does not self-verify and shares no key with ours was merged:
\* chain merging, had it been attempted, would have failed differently.
C6_Witness ==
    /\ Called("merge")
    /\ ~ChainSelfVerify(call.arg.chain)
    /\ ~ShareKey(call.before.chain, call.arg.chain)
    /\ call.result = "InvalidMessage"

(***************************************************************************)
(* C7.  As claimed: after a successful merge the retained elders_info is   *)
(* the one of the two whose signing key has the larger index in the merged *)
(* chain; on equal indices the one with strictly more elders; on a full    *)
(* tie the receiver's own.                                                 *)
(***************************************************************************)
RetainedByPosition(ours, theirs, chain) ==
    LET our_index   == IndexOf(chain, SigningKey(ours))
        their_index == IndexOf(chain, SigningKey(theirs))
    IN  IF their_index > our_index THEN theirs
        ELSE IF our_index > their_index THEN ours
        ELSE IF Cardinality(theirs.value.elders) > Cardinality(ours.value.elders)
        THEN theirs
        ELSE ours

C7_Original_RetainsLaterSigned ==
    (Called("merge") /\ call.result = "Ok")
        => section.elders_info =
            RetainedByPosition(call.before.elders_info, call.arg.elders_info,
                               section.chain)

(***************************************************************************)
(* C7, amended.  After a successful merge: if the other view's elders_info *)
(* does not self-verify the receiver keeps its own; otherwise the retained *)
(* elders_info is the one whose signing key has the larger index in the    *)
(* merged chain (a key that is not in the merged chain counting as before  *)
(* every key that is), on equal indices the one with strictly more elders, *)
(* and on a full tie the receiver's own.                                   *)
(***************************************************************************)
C7_RetainsLaterSignedVerified ==
    (Called("merge") /\ call.result = "Ok")
        => section.elders_info =
            IF ProvenSelfVerify(call.arg.elders_info)
            THEN RetainedByPosition(call.before.elders_info,
                                    call.arg.elders_info, section.chain)
            ELSE call.before.elders_info

\* Both EldersInfos are signed by the same key and the other has more elders.
C7_Witness ==
    /\ Called("merge")
    /\ call.result = "Ok"
    /\ ProvenSelfVerify(call.arg.elders_info)
    /\ SigningKey(call.arg.elders_info) = SigningKey(call.before.elders_info)
    /\ Cardinality(call.arg.elders_info.value.elders)
            > Cardinality(call.before.elders_info.value.elders)
    /\ section.elders_info = call.arg.elders_info

(***************************************************************************)
(* C8.  Merging a view whose chain strictly extends ours yields the longer *)
(* chain, and the elders_info signed by the later key: a node with chain   *)
(* [K0,K1] that merges a view with chain [K0,K1,K2] and an elders_info     *)
(* signed by K2 ends with chain [K0,K1,K2] and that elders_info.           *)
(***************************************************************************)
C8_MergeOfExtendingView ==
    (/\ Called("merge")
     /\ ChainSelfVerify(call.arg.chain)
     /\ StrictlyExtends(call.arg.chain, call.before.chain))
        => /\ call.result = "Ok"
           /\ section.chain = call.arg.chain
           /\ (/\ ProvenSelfVerify(call.arg.elders_info)
               /\ IndexOf(call.arg.chain, SigningKey(call.arg.elders_info))
                    > IndexOf(call.arg.chain, SigningKey(call.before.elders_info)))
                => section.elders_info = call.arg.elders_info
           /\ (IndexOf(call.arg.chain, SigningKey(call.arg.elders_info))
                    < IndexOf(call.arg.chain, SigningKey(call.before.elders_info)))
                => section.elders_info = call.before.elders_info

\* Our chain [K0,K1] met a view with chain [K0,K1,K2] and an elders_info
\* signed by K2.
C8_Witness ==
    /\ Called("merge")
    /\ ChainLen(call.before.chain) = 2
    /\ ChainLen(call.arg.chain) = 3
    /\ StrictlyExtends(call.arg.chain, call.before.chain)
    /\ ProvenSelfVerify(call.arg.elders_info)
    /\ SigningKey(call.arg.elders_info) = LastKey(call.arg.chain)
    /\ section.chain = call.arg.chain
    /\ section.elders_info = call.arg.elders_info

(***************************************************************************)
(* C9.  merge is idempotent: merging the same view a second time leaves    *)
(* the Section as the first merge left it, and does not fail if the first  *)
(* merge succeeded.                                                        *)
(***************************************************************************)
C9_MergeIsIdempotent ==
    Called("merge")
        => LET again == SectionMerge(section, call.arg)
           IN  /\ again.section = section
               /\ call.result = "Ok" => again.result = "Ok"

\* A merge has changed the chain, the EldersInfo and the members at once.
C9_Witness ==
    /\ Called("merge")
    /\ call.result = "Ok"
    /\ section.chain # call.before.chain
    /\ section.elders_info # call.before.elders_info
    /\ section.members # call.before.members
    /\ call.before.members # NoMembers

(***************************************************************************)
(* C10.  When no split is possible and the expected elder set differs from *)
(* the current one but has fewer than majority_count(|current|) =          *)
(* |current|/2 + 1 members, promote_and_demote_elders returns an empty     *)
(* list and the Section is unchanged.                                      *)
(***************************************************************************)
C10_RefusesToShrinkBelowMajority ==
    (/\ Called("promote_and_demote_elders")
     /\ SectionTrySplit(call.before, call.arg) = << >>
     /\ SectionElderCandidates(call.before, ElderSize)
            # call.before.elders_info.value.elders
     /\ Cardinality(SectionElderCandidates(call.before, ElderSize))
            < Cardinality(call.before.elders_info.value.elders) \div 2 + 1)
        => (call.result = << >> /\ section = call.before)

\* Two elders, one joined adult left to choose from: refused.
C10_Witness ==
    /\ Called("promote_and_demote_elders")
    /\ Cardinality(call.before.elders_info.value.elders) = ElderSize
    /\ Cardinality(SectionElderCandidates(call.before, ElderSize)) = ElderSize - 1
    /\ SectionElderCandidates(call.before, ElderSize)
            \subseteq call.before.elders_info.value.elders
    /\ call.result = << >>

C12_SplitsIffBothSidesLargeEnough ==
    Called("promote_and_demote_elders")
        => LET prefix  == call.before.elders_info.value.prefix
               members == call.before.members
               adults_with(bit) ==
                   {n \in DOMAIN members :
                       /\ members[n].value.state = "Joined"
                       /\ members[n].value.peer.age >= MIN_AGE
                       /\ NameBit(n, Len(prefix)) = bit}
               enough ==
                   /\ Len(prefix) < NameBits
                   /\ Cardinality(adults_with(0)) >= RecommendedSectionSize
                   /\ Cardinality(adults_with(1)) >= RecommendedSectionSize
               split == SectionTrySplit(call.before, call.arg)
           IN  /\ enough <=> Len(split) = 2
               /\ ~enough <=> split = << >>
               /\ enough <=> Len(call.result) = 2

\* A split is returned for a section of exactly recommended_section_size
\* adults in each half, one of them older than MIN_AGE.
C12_Witness ==
    /\ Called("promote_and_demote_elders")
    /\ Len(call.result) = 2
    /\ Cardinality(Adults(call.before.members)) = 2 * RecommendedSectionSize
    /\ \E n \in DOMAIN call.before.members :
            call.before.members[n].value.peer.age > MIN_AGE

MembersMatchPrefix(self) ==
    \A n \in DOMAIN self.members : Matches(self.elders_info.value.prefix, n)

C15_EldersAreJoinedMembers ==
    \A n \in section.elders_info.value.elders : IsJoined(section.members, n)

(***************************************************************************)
(* C16.  As claimed: the name of every entry in members matches the prefix *)
(* of the current elders_info after every merge and every accepted         *)
(* update_elders, and it remains so after update_member:                   *)
(* update_member never leaves in members an entry whose name falls outside *)
(* the current prefix.                                                     *)
(***************************************************************************)
C16_Original_MembersMatchPrefix ==
    (\/ Called("merge") /\ call.result = "Ok"
     \/ Called("update_elders") /\ call.result = TRUE
     \/ Called("update_member") /\ MembersMatchPrefix(call.before))
        => MembersMatchPrefix(section)

(***************************************************************************)
(* C16, amended.  The name of every entry in members matches the prefix of *)
(* the current elders_info after every successful merge and every accepted *)
(* update_elders.  update_member makes no such check: it changes at most   *)
(* the entry of the name it is given, whatever the prefix.                 *)
(***************************************************************************)
C16_MembersMatchPrefixAfterPrune ==
    /\ (\/ Called("merge") /\ call.result = "Ok"
        \/ Called("update_elders") /\ call.result = TRUE)
            => MembersMatchPrefix(section)
    /\ Called("update_member")
            => /\ DOMAIN section.members \subseteq
                    DOMAIN call.before.members \cup {call.arg.value.peer.name}
               /\ \A n \in DOMAIN call.before.members :
                    /\ n \in DOMAIN section.members
                    /\ n # call.arg.value.peer.name
                            => section.members[n] = call.before.members[n]

\* A merge has adopted an EldersInfo of a longer prefix and dropped a member.
C16_Witness ==
    /\ Called("merge")
    /\ call.result = "Ok"
    /\ IsExtensionOf(section.elders_info.value.prefix,
                     call.before.elders_info.value.prefix)
    /\ MembersMatchPrefix(call.before)
    /\ DOMAIN section.members # DOMAIN call.before.members

(***************************************************************************)
(* C17.  The section chain is append-only under update_chain and merge:    *)
(* once a key is at index i of a node's chain it stays at index i in every *)
(* later state, the chain length never decreases and is always at least 1, *)
(* and no key is ever removed.                                             *)
(***************************************************************************)
C17_ChainIsAppendOnly ==
    [][/\ ChainLen(section.chain) >= 1
       /\ ChainLen(section'.chain) >= ChainLen(section.chain)
       /\ \A i \in 1 .. ChainLen(section.chain) :
              ChainKeys(section'.chain)[i] = ChainKeys(section.chain)[i]
       /\ \A k \in Keys : HasKey(section.chain, k) => HasKey(section'.chain, k)]_vars

\* A merge has grown the chain with the keys of a view that starts at another
\* key than ours.
C17_Witness ==
    /\ Called("merge")
    /\ call.result = "Ok"
    /\ call.arg.chain.head # call.before.chain.head
    /\ ChainLen(section.chain) > ChainLen(call.before.chain)
    /\ ChainLen(call.before.chain) > 1

(***************************************************************************)
(* C18.  update_chain(key, signature) appends key to the chain and returns *)
(* true if and only if signature is a valid signature of key under the     *)
(* chain's current last key; otherwise it returns false and the whole      *)
(* Section is unchanged.                                                   *)
(***************************************************************************)
C18_UpdateChainAppendsIffSignedByLastKey ==
    Called("update_chain")
        => LET key       == call.arg[1]
               signature == call.arg[2]
               last      == ChainKeys(call.before.chain)[ChainLen(call.before.chain)]
               valid     == signature.signer = last /\ signature.payload = key
           IN  /\ valid <=> call.result = TRUE
               /\ valid =>
                    /\ ChainKeys(section.chain)
                            = Append(ChainKeys(call.before.chain), key)
                    /\ section.chain.tail[Len(section.chain.tail)].signature
                            = signature
                    /\ section.members = call.before.members
                    /\ section.elders_info = call.before.elders_info
               /\ ~valid => section = call.before

\* A link signed by a key of the chain that is not its last key was refused.
C18_Witness ==
    /\ Called("update_chain")
    /\ call.result = FALSE
    /\ HasKey(call.before.chain, call.arg[2].signer)
    /\ call.arg[2].signer # LastKey(call.before.chain)
    /\ section = call.before

(***************************************************************************)
(* C19.  As claimed, the consequence: over any sequence of update_member   *)
(* and merge calls, a member recorded as Left or Relocated at key index i  *)
(* never reverts to Joined unless re-admitted under a later key.  Here:    *)
(* whatever call was made on a Section that records a member as departed   *)
(* at index i, no update_member that follows it leaves that member Joined  *)
(* by an entry signed at an index up to i.                                 *)
(***************************************************************************)
C19_Original_DepartedNeverRevertsToJoined ==
    (Called("merge") \/ Called("update_member"))
        => \A n \in DOMAIN call.before.members :
            LET departed == call.before.members[n]
                i == IndexOf(call.before.chain, SigningKey(departed))
            IN  departed.value.state \in {"Left", "Relocated"}
                => \A m \in GossipMemberInfos :
                    LET after == SectionUpdateMember(section, m.value, m.proof).section
                    IN  ~(/\ IsJoined(after.members, n)
                          /\ IndexOf(after.chain, SigningKey(after.members[n])) <= i)

(***************************************************************************)
(* C19, amended.  update_member and merge never replace an existing entry  *)
(* by one for the same name signed at a strictly earlier chain key index,  *)
(* and at equal key index never replace a Left or Relocated entry by a     *)
(* Joined one (precedence Joined < Left < Relocated): for as long as its   *)
(* entry stays in members, a member recorded as Left or Relocated at key   *)
(* index i does not revert to Joined unless re-admitted under a later key. *)
(* (The entry leaves members when a merge or update_elders adopts a prefix *)
(* that does not match its name.)                                          *)
(***************************************************************************)
C19_EntriesNeverStepBack ==
    [][\A n \in DOMAIN section.members \cap DOMAIN section'.members :
          LET old == section.members[n]
              new == section'.members[n]
              old_index == IndexOf(section.chain, SigningKey(old))
              new_index == IndexOf(section'.chain, SigningKey(new))
          IN  /\ new_index >= old_index
              /\ new_index = old_index
                    => StateRank(new.value.state) >= StateRank(old.value.state)]_vars

\* A Joined entry is refused for a member recorded as Left under the same
\* key, or a Joined entry under a later key re-admits a member that left.
C19_Witness ==
    /\ Called("update_member")
    /\ call.arg.value.state = "Joined"
    /\ call.arg.value.peer.name \in DOMAIN call.before.members
    /\ call.before.members[call.arg.value.peer.name].value.state = "Left"
    /\ \/ /\ SigningKey(call.arg)
                = SigningKey(call.before.members[call.arg.value.peer.name])
           /\ call.result = FALSE
       \/ /\ IndexOf(section.chain, SigningKey(call.arg))
                > IndexOf(section.chain,
                          SigningKey(call.before.members[call.arg.value.peer.name]))
           /\ call.result = TRUE

(***************************************************************************)
(* C20.  create_proof_chain_for_our_info(their_knowledge) returns the      *)
(* suffix of the chain starting at index min(their_knowledge, i), where i  *)
(* is the index of the key that signed the current elders_info (starting   *)
(* at i when their_knowledge is None); the result always contains the      *)
(* elders_info signing key and the chain's last key, and the call never    *)
(* fails, even when their_knowledge is larger than the chain length.       *)
(***************************************************************************)
C20_ProofChainIsSuffixFromMinIndex ==
    Called("create_proof_chain_for_our_info")
        => LET chain == call.before.chain
               their_knowledge == call.arg
               i == IndexOf(chain, SigningKey(call.before.elders_info))
               from == IF their_knowledge = NoIndex \/ their_knowledge > i
                       THEN i ELSE their_knowledge
           IN  /\ Len(call.result) = 1
               /\ i # NoIndex
               /\ ChainKeys(call.result[1])
                    = SubSeq(ChainKeys(chain), from + 1, ChainLen(chain))
               /\ call.result[1].tail
                    = SubSeq(chain.tail, from + 1, Len(chain.tail))
               /\ HasKey(call.result[1], SigningKey(call.before.elders_info))
               /\ LastKey(call.result[1]) = LastKey(chain)
               /\ section = call.before

\* The recipient's index is past the end of the chain, and the EldersInfo is
\* signed by a key in the middle of it: the result is a proper suffix of more
\* than one key.
C20_Witness ==
    /\ Called("create_proof_chain_for_our_info")
    /\ call.arg > ChainLen(call.before.chain)
    /\ Len(call.result) = 1
    /\ ChainLen(call.result[1]) > 1
    /\ ChainLen(call.result[1]) < ChainLen(call.before.chain)

(***************************************************************************)
(* C21.  to_minimal() leaves the original Section untouched and returns a  *)
(* Section with the same elders_info, an empty member set, and a chain     *)
(* equal to the original chain sliced from the elders_info signing key     *)
(* onward; the returned Section itself satisfies                           *)
(* chain.has_key(elders_info.proof.public_key).                            *)
(***************************************************************************)
C21_ToMinimalIsSlicedCopy ==
    Called("to_minimal")
        => LET chain == call.before.chain
               i == IndexOf(chain, SigningKey(call.before.elders_info))
           IN  /\ section = call.before
               /\ Len(call.result) = 1
               /\ call.result[1].elders_info = call.before.elders_info
               /\ DOMAIN call.result[1].members = {}
               /\ ChainKeys(call.result[1].chain)
                    = SubSeq(ChainKeys(chain), i + 1, ChainLen(chain))
               /\ call.result[1].chain.tail
                    = SubSeq(chain.tail, i + 1, Len(chain.tail))
               /\ call.result[1].chain.head = SigningKey(call.before.elders_info)
               /\ HasKey(call.result[1].chain,
                         SigningKey(call.result[1].elders_info))

\* The minimal copy of a section that has members and whose EldersInfo is
\* signed by a key in the middle of the chain.
C21_Witness ==
    /\ Called("to_minimal")
    /\ DOMAIN call.before.members # {}
    /\ Len(call.result) = 1
    /\ ChainLen(call.result[1].chain) > 1
    /\ ChainLen(call.result[1].chain) < ChainLen(call.before.chain)

(***************************************************************************)
(* C22.  Section::first_node(peer) yields a Section with the empty prefix, *)
(* a chain of length exactly 1 whose only key signed the elders_info, an   *)
(* elder set containing exactly that peer, and a members map containing    *)
(* exactly that peer in state Joined.                                      *)
(***************************************************************************)
C22_FirstNodeIsSingleElderSection ==
    Called("first_node")
        => LET peer == call.arg
           IN  /\ section.elders_info.value.prefix = EmptyPrefix
               /\ ChainLen(section.chain) = 1
               /\ section.chain.head = SigningKey(section.elders_info)
               /\ ProvenSelfVerify(section.elders_info)
               /\ section.elders_info.value.elders = {peer.name}
               /\ DOMAIN section.members = {peer.name}
               /\ section.members[peer.name].value = MemberInfo(peer, "Joined")
               /\ ProvenVerify(section.members[peer.name], section.chain)

\* A first node that is neither the lowest name nor of the minimal age, with a
\* key that is not the first one generated.
C22_Witness ==
    /\ Called("first_node")
    /\ call.arg.name # 0
    /\ call.arg.age > MIN_AGE
    /\ call.result # 0
    /\ IsJoined(section.members, call.arg.name)

(***************************************************************************)
(* The invariant of an EldersInfo: every elder's name matches its prefix   *)
(* and there are between 1 and elder_size elders.                          *)
(***************************************************************************)
EldersInfoInvariant(info) ==
    /\ \A n \in info.elders : Matches(info.prefix, n)
    /\ 1 <= Cardinality(info.elders)
    /\ Cardinality(info.elders) <= ElderSize

C24_SplitSectionsKeepElderSize ==
    (/\ Called("update_elders")
     /\ call.result = TRUE
     /\ section.elders_info.value.prefix # EmptyPrefix
     /\ \/ call.before.elders_info.value.prefix = EmptyPrefix
        \/ Cardinality(call.before.elders_info.value.elders) >= ElderSize)
        => Cardinality(section.elders_info.value.elders) >= ElderSize

(***************************************************************************)
(* C25.  A node's own name always matches the prefix of the Section it     *)
(* holds: no update_elders or merge call leaves the node with a current    *)
(* prefix that does not match its own name.  The Section does not record   *)
(* the name of the node that holds it; whatever that name is, it matched   *)
(* the prefix before the call, so the claim requires that some name        *)
(* matching the prefix before the call matches the prefix after it.        *)
(***************************************************************************)
C25_OwnNameStillMatchesPrefix ==
    (\/ Called("update_elders") /\ call.result = TRUE
     \/ Called("merge") /\ call.result = "Ok")
        => \E our_name \in Names :
            /\ Matches(call.before.elders_info.value.prefix, our_name)
            /\ Matches(section.elders_info.value.prefix, our_name)

(***************************************************************************)
(* C26.  update_elders monotonicity: along any sequence of accepted        *)
(* update_elders calls whose new EldersInfo has the same prefix as the     *)
(* current one, the version of the section's elders_info never decreases.  *)
(***************************************************************************)
C26_VersionNeverDecreases ==
    (/\ Called("update_elders")
     /\ call.result = TRUE
     /\ call.arg.value.prefix = call.before.elders_info.value.prefix)
        => section.elders_info.value.version
                >= call.before.elders_info.value.version

(***************************************************************************)
(* C27.  MemberKnowledge::update is element-wise monotone: after           *)
(* k.update(o), each of elders_version and parsec_version equals the       *)
(* maximum of its previous value and o's value, so neither field ever      *)
(* decreases over any sequence of updates, and update is idempotent and    *)
(* order-independent.                                                      *)
(***************************************************************************)
C27_KnowledgeUpdateIsElementWiseMax ==
    Called("update")
        => LET k == call.before
               o == call.arg
               after == node.knowledge
           IN  /\ after.elders_version
                    = (IF k.elders_version >= o.elders_version
                       THEN k.elders_version ELSE o.elders_version)
               /\ after.parsec_version
                    = (IF k.parsec_version >= o.parsec_version
                       THEN k.parsec_version ELSE o.parsec_version)
               /\ after.elders_version >= k.elders_version
               /\ after.parsec_version >= k.parsec_version
               /\ MemberKnowledgeUpdate(after, o) = after
               /\ \A p \in MemberKnowledges :
                    MemberKnowledgeUpdate(after, p)
                        = MemberKnowledgeUpdate(MemberKnowledgeUpdate(k, p), o)

\* An update that raises one field and leaves the other, which was higher.
C27_Witness ==
    /\ Called("update")
    /\ call.arg.elders_version > call.before.elders_version
    /\ call.arg.parsec_version < call.before.parsec_version
    /\ node.knowledge.elders_version = call.arg.elders_version
    /\ node.knowledge.parsec_version = call.before.parsec_version

(***************************************************************************)
(* C28.  A node in the Bootstrapping stage leaves it only to Joining, and  *)
(* only as the result of processing a fully verified                       *)
(* BootstrapResponse::Join; the Joining stage is created with exactly the  *)
(* elders_info and section_key carried by that response.  Every other      *)
(* message variant, and every Rebootstrap response, leaves the node in     *)
(* Bootstrapping with no transition.                                       *)
(***************************************************************************)
C28_LeavesBootstrappingOnlyOnVerifiedJoin ==
    /\ node.stage.stage \in {"Bootstrapping", "Joining"}
    /\ Called("send_bootstrap_request") => node.stage = call.before.stage
    /\ Called("process_message")
        => LET msg == call.arg.msg
           IN  /\ call.before.stage.stage = "Bootstrapping"
               /\ node.stage.stage = "Joining"
                    => /\ msg.variant = "BootstrapResponse"
                       /\ msg.verify = "Full"
                       /\ msg.response.kind = "Join"
                       /\ node.stage.elders_info = msg.response.elders_info
                       /\ node.stage.section_key = msg.response.section_key
                       /\ call.result.result = <<node.stage>>
               /\ (\/ msg.variant # "BootstrapResponse"
                   \/ msg.response.kind = "Rebootstrap")
                    => /\ node.stage = call.before.stage
                       /\ call.result.result # "Err"
                            => call.result.result = << >>

\* A relocating node is told to join a section of a two-bit prefix and becomes
\* Joining with the EldersInfo and the key of the response.
C28_Witness ==
    /\ Called("process_message")
    /\ call.before.stage.stage = "Bootstrapping"
    /\ call.before.stage.relocate_details # << >>
    /\ node.stage.stage = "Joining"
    /\ Len(node.stage.elders_info.prefix) = 2
    /\ node.stage.section_key # 0
    /\ node.stage.elders_info = call.arg.msg.response.elders_info

(***************************************************************************)
(* C29.  Bootstrap is idempotent and filtered: a BootstrapResponse from a  *)
(* peer to which the node has no outstanding BootstrapRequest is dropped   *)
(* without any state change or transition (and nothing is sent).           *)
(***************************************************************************)
C29_UnsolicitedResponseIsDropped ==
    (/\ Called("process_message")
     /\ call.arg.msg.variant = "BootstrapResponse"
     /\ call.arg.sender \notin call.before.requested)
        => /\ node.stage = call.before.stage
           /\ call.result.sent = << >>

(***************************************************************************)
(* C30.  When a relocating node handles BootstrapResponse::Join, its new   *)
(* name agrees with the relocate destination on the first                  *)
(* elders_info.prefix.bit_count + 3 bits; the node's identity is replaced  *)
(* by the new one and the relocate payload binds the new identity to the   *)
(* signed details.  A non-relocating node keeps its identity and produces  *)
(* no relocate payload.                                                    *)
(***************************************************************************)
C30_RelocatedNameIsNearDestination ==
    (Called("process_message") /\ node.stage.stage = "Joining")
        => LET old == call.before.stage
               bootstrapping == call.result.stage
               joining == node.stage
           IN  IF old.relocate_details # << >>
               THEN LET details == old.relocate_details[1]
                        bits == Len(joining.elders_info.prefix) + 3
                    IN  /\ \A i \in 0 .. (bits - 1) :
                            i < IdBits
                                => IdBit(joining.full_id, i)
                                    = IdBit(details.destination, i)
                        /\ bootstrapping.full_id = joining.full_id
                        /\ bootstrapping.relocate_details = << >>
                        /\ Len(joining.relocate_payload) = 1
                        /\ joining.relocate_payload[1].details = details
                        /\ joining.relocate_payload[1].signature_of_new_id_with_old_id
                            = Sign(old.full_id, joining.full_id)
               ELSE /\ joining.full_id = old.full_id
                    /\ bootstrapping.full_id = old.full_id
                    /\ joining.relocate_payload = << >>

\* A relocating node joins a section of a one-bit prefix under a new name that
\* is neither its old name nor the destination itself.
C30_Witness ==
    /\ Called("process_message")
    /\ node.stage.stage = "Joining"
    /\ call.before.stage.relocate_details # << >>
    /\ Len(node.stage.elders_info.prefix) = 1
    /\ node.stage.full_id # call.before.stage.full_id
    /\ node.stage.full_id # call.before.stage.relocate_details[1].destination
    /\ node.stage.relocate_payload # << >>

(***************************************************************************)
(* C31.  Every BootstrapRequest sent by a Bootstrapping node carries the   *)
(* relocation destination name if the node holds relocate details, and     *)
(* otherwise the node's own current name; this holds for the initial       *)
(* request and for every request re-sent after a Rebootstrap.              *)
(***************************************************************************)
C31_RequestCarriesDestinationOrOwnName ==
    (Called("send_bootstrap_request") \/ Called("process_message"))
        => LET self == call.before.stage
               sent == call.result.sent
           IN  \A i \in 1 .. Len(sent) :
                /\ sent[i].variant = "BootstrapRequest"
                /\ sent[i].name =
                    (IF self.relocate_details # << >>
                     THEN self.relocate_details[1].destination
                     ELSE self.full_id)

\* A relocating node whose destination is not its own name re-sends two
\* requests after a Rebootstrap, or sends its first request.
C31_Witness ==
    /\ Called("process_message") \/ Called("send_bootstrap_request")
    /\ call.before.stage.relocate_details # << >>
    /\ call.before.stage.relocate_details[1].destination
            # call.before.stage.full_id
    /\ \/ Called("process_message") /\ Len(call.result.sent) = 2
       \/ Called("send_bootstrap_request") /\ Len(call.result.sent) = 1

(***************************************************************************)
(* C32.  On BootstrapResponse::Rebootstrap(addrs) a Bootstrapping node     *)
(* sends one BootstrapRequest to each address in addrs, in order, stays in *)
(* Bootstrapping, and keeps its identity and relocate details unchanged;   *)
(* if a send fails the remaining addresses are not contacted and the error *)
(* is returned.                                                            *)
(***************************************************************************)
C32_RebootstrapResendsInOrder ==
    (/\ Called("process_message")
     /\ call.arg.msg.variant = "BootstrapResponse"
     /\ call.arg.msg.verify = "Full"
     /\ call.arg.msg.src = "Node"
     /\ call.arg.msg.response.kind = "Rebootstrap")
        => LET addrs == call.arg.msg.response.new_conn_infos
               sent == call.result.sent
           IN  /\ node.stage = call.before.stage
               /\ node.stage.stage = "Bootstrapping"
               /\ Len(sent) <= Len(addrs)
               /\ \A i \in 1 .. Len(sent) : sent[i].dst = addrs[i]
               /\ IF call.result.result = "Err"
                  THEN Len(sent) < Len(addrs)
                  ELSE call.result.result = << >> /\ Len(sent) = Len(addrs)
               /\ node.requested
                    = call.before.requested \cup {addrs[i] : i \in 1 .. Len(sent)}

\* The send to the second of two different addresses fails: the first request
\* is out and the error is returned.
C32_Witness ==
    /\ Called("process_message")
    /\ call.arg.msg.variant = "BootstrapResponse"
    /\ call.arg.msg.response.kind = "Rebootstrap"
    /\ Len(call.arg.msg.response.new_conn_infos) = 2
    /\ call.arg.msg.response.new_conn_infos[1]
            # call.arg.msg.response.new_conn_infos[2]
    /\ Len(call.result.sent) = 1
    /\ call.result.result = "Err"

(***************************************************************************)
(* The Elder state (src/src/states/elder/mod.rs).  The elder keeps its     *)
(* name, the peers of its peer manager (a client, a routing node or none   *)
(* per name), the members, prefix and version of its section's EldersInfo, *)
(* the prefixes of the other sections it knows, the section keys its chain *)
(* trusts, the queue of routing messages to dispatch and the routing        *)
(* messages its filter has seen.                                           *)
(* What a handler emits (events to the outbox, votes, messages and         *)
(* disconnections) is returned next to the new state.                      *)
(***************************************************************************)
MinSectionSize == 2
MaxQueue == 2

ElderState(name, peers, members, prefix, version, other_prefixes) ==
    [stage |-> "Elder", name |-> name, peers |-> peers, members |-> members,
     prefix |-> prefix, version |-> version,
     other_prefixes |-> other_prefixes, is_first_node |-> FALSE,
     keys |-> {0}, msg_queue |-> << >>, seen |-> {}]

Handled(self, result, transition, events, votes, sent) ==
    [self |-> self, result |-> result, transition |-> transition,
     events |-> events, votes |-> votes, sent |-> sent]

Event(kind, name) == [kind |-> kind, name |-> name]

RestartRequired == [kind |-> "RestartRequired"]

\* vote_for_event(AccumulatingEvent::kind(payload)).
Vote(kind, payload) == [kind |-> kind, payload |-> payload]

RoutingMessage(content, dst) == [content |-> content, dst |-> dst]

Disconnect(pub_id) == [content |-> "Disconnect", dst |-> pub_id]

\* peer_mgr.connected_peers().filter(|(_, p)| p.is_node())
ConnectedNodePeers(peers) == {n \in DOMAIN peers : peers[n] = "Node"}

\* chain.is_peer_valid: the peer is an elder of our section.
IsPeerValid(self, pub_id) == pub_id \in self.members

Emits(events, kind) == \E i \in 1 .. Len(events) : events[i].kind = kind

\* dropped_peer with the genesis exemption left out.
DroppedPeerAtAnyVersion(self, pub_id, try_reconnect) ==
    LET removed == self.peers[pub_id] = "Node"
        after == [self EXCEPT !.peers[pub_id] = "None"]
        lost == IF removed THEN <<Event("NodeLost", pub_id)>> ELSE << >>
        votes == IF removed /\ pub_id \in self.members
                 THEN <<Vote("Offline", pub_id)>> ELSE << >>
    IN  IF ConnectedNodePeers(after.peers) = {}
        THEN [keep |-> FALSE, self |-> after,
              events |-> Append(lost, RestartRequired),
              votes |-> votes, sent |-> << >>]
        ELSE [keep |-> TRUE, self |-> after, events |-> lost, votes |-> votes,
              sent |-> IF try_reconnect /\ IsPeerValid(after, pub_id)
                       THEN <<RoutingMessage("ConnectionRequest", pub_id)>>
                       ELSE << >>]

\* Elder::dropped_peer: `keep` is whether the elder should keep running.
\* remove_peer_no_joining_checks removes the peer and tells whether it was a
\* routing node.
DroppedPeer(self, pub_id, try_reconnect) ==
    LET removed == self.peers[pub_id] = "Node"
        after == [self EXCEPT !.peers[pub_id] = "None"]
        lost == IF removed THEN <<Event("NodeLost", pub_id)>> ELSE << >>
        votes == IF removed /\ pub_id \in self.members
                 THEN <<Vote("Offline", pub_id)>> ELSE << >>
    IN  IF ConnectedNodePeers(after.peers) = {} /\ self.version > 0
        THEN [keep |-> FALSE, self |-> after,
              events |-> Append(lost, RestartRequired),
              votes |-> votes, sent |-> << >>]
        ELSE [keep |-> TRUE, self |-> after, events |-> lost, votes |-> votes,
              sent |-> IF try_reconnect /\ IsPeerValid(after, pub_id)
                       THEN <<RoutingMessage("ConnectionRequest", pub_id)>>
                       ELSE << >>]

\* Elder::handle_peer_lost.
HandlePeerLost(self, pub_id) ==
    IF self.peers[pub_id] = "None"
    THEN Handled(self, "Ok", "Stay", << >>, << >>, << >>)
    ELSE LET dropped == DroppedPeer(self, pub_id, TRUE)
         IN  Handled(dropped.self, "Ok",
                     IF dropped.keep THEN "Stay" ELSE "Terminate",
                     dropped.events, dropped.votes, dropped.sent)

\* The EldersInfo that follows `self`'s with the given members.
NextEldersInfo(self, members) ==
    [members |-> members, prefix |-> self.prefix, version |-> self.version + 1]

\* Elder::handle_remove_elder_event.  chain.remove_member fails for a name
\* that is not a member; the result of dropped_peer is discarded.
HandleRemoveElderEvent(self, pub_id) ==
    IF pub_id \notin self.members
    THEN Handled(self, "Err", "Stay", << >>, << >>, << >>)
    ELSE LET removed == [self EXCEPT !.members = @ \ {pub_id}]
             self_info == NextEldersInfo(removed, removed.members)
             vote == <<Vote("SectionInfo", self_info)>>
         IN  IF removed.peers[pub_id] = "None"
             THEN Handled(removed, "Ok", "Stay", << >>, vote, << >>)
             ELSE LET dropped == DroppedPeer(removed, pub_id, FALSE)
                  IN  Handled(dropped.self, "Ok", "Stay", dropped.events,
                              vote \o dropped.votes,
                              Append(dropped.sent, Disconnect(pub_id)))

\* add_node: the peer becomes a routing node; NodeAdded is emitted when it
\* was not one.
AddNode(self, pub_id) ==
    [self |-> [self EXCEPT !.peers[pub_id] = "Node"],
     events |-> IF self.peers[pub_id] = "Node" THEN << >>
                ELSE <<Event("NodeAdded", pub_id)>>]

\* Elder::handle_connection_response: set_connected, then
\* process_connection adds a valid peer to the routing table.
HandleConnectionResponse(self, pub_id) ==
    LET connected == IF self.peers[pub_id] = "None"
                     THEN [self EXCEPT !.peers[pub_id] = "JoiningNode"]
                     ELSE self
    IN  IF IsPeerValid(connected, pub_id)
        THEN LET added == AddNode(connected, pub_id)
             IN  Handled(added.self, "Ok", "Stay", added.events, << >>, << >>)
        ELSE Handled(connected, "Ok", "Stay", << >>, << >>, << >>)

\* handle_join_request that approves the candidate at once.
HandleJoinRequestApproving(self, pub_id) ==
    Handled(self, "Ok", "Stay", << >>, <<Vote("AddElder", pub_id)>>,
            <<RoutingMessage("NodeApproval", pub_id)>>)

\* Elder::handle_join_request.
HandleJoinRequest(self, pub_id) ==
    Handled(self, "Ok", "Stay", << >>, <<Vote("Online", pub_id)>>, << >>)

\* Elder::handle_candidate_approval: a connection request when the candidate
\* is not connected, then NodeApproval.
HandleCandidateApproval(self, pub_id) ==
    (IF self.peers[pub_id] = "None"
     THEN <<RoutingMessage("ConnectionRequest", pub_id)>> ELSE << >>)
        \o <<RoutingMessage("NodeApproval", pub_id)>>

\* Elder::handle_online_event.
HandleOnlineEvent(self, public_id) ==
    Handled(self, "Ok", "Stay", << >>, <<Vote("AddElder", public_id)>>,
            HandleCandidateApproval(self, public_id))

\* Elder::handle_offline_event.
HandleOfflineEvent(self, pub_id) ==
    Handled(self, "Ok", "Stay", << >>, <<Vote("RemoveElder", pub_id)>>, << >>)

\* Elder::handle_add_elder_event.  chain.add_member fails for a name that
\* is a member already or that our prefix does not match.
HandleAddElderEvent(self, new_pub_id) ==
    IF new_pub_id \in self.members \/ ~Matches(self.prefix, new_pub_id)
    THEN Handled(self, "Err", "Stay", << >>, << >>, << >>)
    ELSE LET joined == [self EXCEPT !.members = @ \cup {new_pub_id}]
             vote == <<Vote("SectionInfo",
                            NextEldersInfo(joined, joined.members))>>
         IN  IF joined.peers[new_pub_id] = "None"
             THEN Handled(joined, "Ok", "Stay", << >>, vote, << >>)
             ELSE LET added == AddNode(joined, new_pub_id)
                  IN  Handled(added.self, "Ok", "Stay", added.events, vote,
                              << >>)

\* chain.len(): the elders we know of, ourselves excluded.
ElderChainLen(self) == Cardinality(self.members \ {self.name})

DirectMessage(content, dst, response) ==
    [content |-> content, dst |-> dst, response |-> response]

BootstrapResponseError(error) == [kind |-> "Error", error |-> error]

\* chain.closest_section(name): the prefix of the section we know that is
\* closest to the name.
ClosestSection(self, name) ==
    IF \E pfx \in self.other_prefixes : Matches(pfx, name)
    THEN CHOOSE pfx \in self.other_prefixes : Matches(pfx, name)
    ELSE self.prefix

\* respond_to_bootstrap_request that tells every requester to join.
RespondAlwaysJoin(self, pub_id) ==
    DirectMessage("BootstrapResponse", pub_id,
                  [kind |-> "Join", section |-> self.prefix])

\* Elder::respond_to_bootstrap_request.  The node infos of a response are
\* stood for by the prefix of the section they are taken from.
RespondToBootstrapRequest(self, pub_id) ==
    DirectMessage("BootstrapResponse", pub_id,
                  IF Matches(self.prefix, pub_id)
                  THEN [kind |-> "Join", section |-> self.prefix]
                  ELSE [kind |-> "Rebootstrap",
                        section |-> ClosestSection(self, pub_id)])

\* Elder::handle_bootstrap_request.  conn_info is the connection the peer
\* map holds for the sender ("None", "Client" or "Node"); client_check is
\* what the banned addresses and the peer manager say of a client's address
\* ("Banned", "Full" when no more clients can be accepted, or "Accepted").
HandleBootstrapRequest(self, pub_id, conn_info, client_check) ==
    IF conn_info = "None"
    THEN Handled(self, "Err", "Stay", << >>, << >>, << >>)
    ELSE IF conn_info = "Client" /\ client_check = "Banned"
    THEN Handled(self, "Ok", "Stay", << >>, << >>, <<Disconnect(pub_id)>>)
    ELSE IF conn_info = "Client" /\ client_check = "Full"
    THEN Handled(self, "Ok", "Stay", << >>, << >>,
                 <<DirectMessage("BootstrapResponse", pub_id,
                                 BootstrapResponseError("ClientLimit")),
                   Disconnect(pub_id)>>)
    ELSE IF /\ conn_info = "Client" \/ ~self.is_first_node
            /\ ElderChainLen(self) < MinSectionSize - 1
    THEN Handled(self, "Ok", "Stay", << >>, << >>,
                 <<DirectMessage("BootstrapResponse", pub_id,
                                 BootstrapResponseError("TooFewPeers")),
                   Disconnect(pub_id)>>)
    ELSE LET accepted ==
                [self EXCEPT !.peers[pub_id] =
                    IF conn_info = "Client" THEN "Client" ELSE "JoiningNode"]
         IN  Handled(accepted, "Ok", "Stay", << >>, << >>,
                     <<RespondToBootstrapRequest(accepted, pub_id)>>)

\* The names of a set in ascending order, as a BTreeSet iterates them.
RECURSIVE NamesInOrder(_)
NamesInOrder(names) ==
    IF names = {} THEN << >>
    ELSE LET least == CHOOSE n \in names : \A o \in names : n <= o
         IN  <<least>> \o NamesInOrder(names \ {least})

\* The position of a prefix in the order of prefixes: shorter first, then
\* by bits.
PrefixRank(prefix) ==
    2 ^ Len(prefix) - 1 + PrefixName(prefix) \div 2 ^ (NameBits - Len(prefix))

RECURSIVE PrefixesInOrder(_)
PrefixesInOrder(prefixes) ==
    IF prefixes = {} THEN << >>
    ELSE LET least == CHOOSE p \in prefixes :
                        \A o \in prefixes : PrefixRank(p) <= PrefixRank(o)
         IN  <<least>> \o PrefixesInOrder(prefixes \ {least})

\* Prefix::sibling: the last bit flipped; the empty prefix is its own
\* sibling.
Sibling(prefix) ==
    IF prefix = << >> THEN prefix
    ELSE [prefix EXCEPT ![Len(prefix)] = 1 - @]

\* Elder::send_neighbour_infos: one NeighbourInfo per other prefix.
SendNeighbourInfos(self) ==
    LET prefixes == PrefixesInOrder(self.other_prefixes)
    IN  [i \in 1 .. Len(prefixes) |->
            RoutingMessage("NeighbourInfo", prefixes[i])]

\* What the chain has done with a consensused SectionInfo when the elder is
\* handed it: the version of an info of our own section is ours, and the
\* prefix of another section is known.
ChainAddEldersInfo(self, elders_info) ==
    IF Matches(elders_info.prefix, self.name)
    THEN [self EXCEPT !.version = elders_info.version]
    ELSE [self EXCEPT !.other_prefixes = @ \cup {elders_info.prefix}]

\* Elder::finalise_prefix_change: the chain moves to the prefix of our name
\* at the length of the new prefix, knows the sibling of that prefix and
\* forgets the sections that the new prefix covers.  Parsec holds no
\* observation to vote for again.
FinalisePrefixChange(self, new_prefix) ==
    LET ours == [i \in 1 .. Len(new_prefix) |-> NameBit(self.name, i - 1)]
    IN  [self EXCEPT !.prefix = ours,
                     !.other_prefixes =
                        {p \in @ \cup {Sibling(ours)} :
                            p # ours /\ ~IsExtensionOf(p, ours)}]

\* Elder::update_peer_states, with no prefix change pending.
UpdatePeerStates(self) ==
    LET connected == {n \in DOMAIN self.peers : self.peers[n] # "None"}
        to_add == {n \in connected : IsPeerValid(self, n)}
        to_remove == {n \in connected \ to_add : self.peers[n] = "Node"}
        added == NamesInOrder({n \in to_add : self.peers[n] # "Node"})
        removed == NamesInOrder(to_remove)
        to_connect == NamesInOrder({n \in self.members :
                        self.peers[n] = "None" /\ n # self.name})
    IN  [self |-> [self EXCEPT !.peers =
                    [n \in DOMAIN self.peers |->
                        IF n \in to_add THEN "Node"
                        ELSE IF n \in to_remove THEN "None"
                        ELSE self.peers[n]]],
         events |-> [i \in 1 .. Len(added) |-> Event("NodeAdded", added[i])],
         sent |-> [i \in 1 .. Len(removed) |-> Disconnect(removed[i])]
                    \o [i \in 1 .. Len(to_connect) |->
                            RoutingMessage("ConnectionRequest", to_connect[i])]]

\* Elder::merge_if_necessary.  `merging` is what the chain says: "NotReady",
\* "ShouldVote" (should_vote_for_merge and not is_self_merge_ready), "Ready"
\* (is_self_merge_ready, try_merge gives nothing) or "Merged" (try_merge
\* gives the merged info).
MergeIfNecessary(self, merging) ==
    [sent |-> IF /\ merging \in {"Ready", "Merged"}
                 /\ Sibling(self.prefix) \in self.other_prefixes
              THEN <<RoutingMessage("Merge", Sibling(self.prefix))>>
              ELSE << >>,
     votes |-> IF merging = "Merged"
               THEN <<Vote("SectionInfo",
                           [members |-> self.members,
                            prefix |-> SubSeq(self.prefix, 1,
                                              Len(self.prefix) - 1),
                            version |-> self.version + 1])>>
               ELSE IF merging = "ShouldVote" THEN <<Vote("OurMerge", << >>)>>
               ELSE << >>]

\* handle_section_info_event that tells the neighbours at the split and again
\* with the update of its own section.
SectionInfoEventTellingTwice(self, elders_info, old_pfx, finalised, has_keys, merging) ==
    LET split == IsExtensionOf(elders_info.prefix, old_pfx)
        merge == IsExtensionOf(old_pfx, elders_info.prefix)
        own == Matches(elders_info.prefix, self.name)
    IN  IF (split \/ merge) /\ ~finalised
        THEN Handled(self, "Err", "Stay", << >>, << >>, << >>)
        ELSE LET changed == IF split \/ merge
                            THEN FinalisePrefixChange(self, elders_info.prefix)
                            ELSE self
                 updated == UpdatePeerStates(changed)
                 merged == MergeIfNecessary(updated.self, merging)
             IN  Handled(updated.self, "Ok", "Stay",
                    (IF split
                     THEN <<Event("SectionSplit", elders_info.prefix)>>
                     ELSE IF merge
                     THEN <<Event("SectionMerged", elders_info.prefix)>>
                     ELSE << >>) \o updated.events,
                    (IF own /\ has_keys
                     THEN <<Vote("SendAckMessage",
                                 [ack_prefix |-> elders_info.prefix,
                                  ack_version |-> elders_info.version])>>
                     ELSE << >>) \o merged.votes,
                    (IF split THEN SendNeighbourInfos(changed) ELSE << >>)
                        \o updated.sent
                        \o (IF own THEN SendNeighbourInfos(updated.self)
                            ELSE << >>)
                        \o merged.sent)

\* Elder::handle_section_info_event.  `finalised` is whether
\* chain.finalise_prefix_change succeeds and has_keys whether the chain
\* holds the key info that the acknowledgement is about.
HandleSectionInfoEvent(self, elders_info, old_pfx, finalised, has_keys, merging) ==
    LET split == IsExtensionOf(elders_info.prefix, old_pfx)
        merge == IsExtensionOf(old_pfx, elders_info.prefix)
        own == Matches(elders_info.prefix, self.name)
    IN  IF (split \/ merge) /\ ~finalised
        THEN Handled(self, "Err", "Stay", << >>, << >>, << >>)
        ELSE LET changed == IF split \/ merge
                            THEN FinalisePrefixChange(self, elders_info.prefix)
                            ELSE self
                 updated == UpdatePeerStates(changed)
                 merged == MergeIfNecessary(updated.self, merging)
             IN  Handled(updated.self, "Ok", "Stay",
                    (IF split
                     THEN <<Event("SectionSplit", elders_info.prefix)>>
                     ELSE IF merge
                     THEN <<Event("SectionMerged", elders_info.prefix)>>
                     ELSE << >>) \o updated.events,
                    (IF own /\ has_keys
                     THEN <<Vote("SendAckMessage",
                                 [ack_prefix |-> elders_info.prefix,
                                  ack_version |-> elders_info.version])>>
                     ELSE << >>) \o merged.votes,
                    (IF split /\ ~own THEN SendNeighbourInfos(changed)
                     ELSE << >>)
                        \o updated.sent
                        \o (IF own THEN SendNeighbourInfos(updated.self)
                            ELSE << >>)
                        \o merged.sent)

\* Authorities: a single node or the sections of a prefix.
ManagedNode(name) == [kind |-> "ManagedNode", name |-> name]

PrefixSection(prefix) == [kind |-> "PrefixSection", prefix |-> prefix]

\* Authority::is_multiple
IsMultiple(auth) == auth.kind # "ManagedNode"

\* Prefix::is_compatible: one prefix is a prefix of the other.
IsCompatible(prefix, other) ==
    \/ prefix = other
    \/ IsExtensionOf(prefix, other)
    \/ IsExtensionOf(other, prefix)

\* Elder::in_authority for the authorities above.
InAuthority(self, auth) ==
    IF auth.kind = "ManagedNode" THEN auth.name = self.name
    ELSE IsCompatible(auth.prefix, self.prefix)

\* A SignedRoutingMessage: the routing message, the keys of the proof chain
\* attached to it and whether its signature is over its content.
SignedRoutingMessage(routing, proof, intact) ==
    [routing |-> routing, proof |-> proof, intact |-> intact]

\* SignedRoutingMessage::check_trust: the proof chain shares a key with the
\* keys the chain trusts.
CheckTrust(signed_msg, self) == signed_msg.proof \cap self.keys # {}

\* RoutingMessageFilter::filter_incoming: the filter has seen the routing
\* message or not, and has seen it afterwards.
FilterIncoming(self, routing) ==
    IF routing \in self.seen THEN "KnownMessage" ELSE "NewMessage"

\* Elder::update_our_knowledge: a vote for the key info of the message when
\* it is newer than what the chain holds.
UpdateOurKnowledge(self, signed_msg) ==
    LET newest == CHOOSE k \in signed_msg.proof :
                    \A o \in signed_msg.proof : k >= o
    IN  IF \A k \in self.keys : k < newest
        THEN <<Vote("TheirKeyInfo", newest)>> ELSE << >>

\* send_signed_message: the message goes on to its targets.
SendSignedMessage(signed_msg) ==
    [content |-> "SignedMessage", dst |-> signed_msg.routing.dst,
     msg |-> signed_msg]

\* handle_signed_message that checks the integrity only.
HandleSignedMessageUnchecked(self, signed_msg) ==
    LET filter_res == FilterIncoming(self, signed_msg.routing)
        filtered == [self EXCEPT !.seen = @ \cup {signed_msg.routing}]
    IN  IF filter_res = "KnownMessage"
        THEN Handled(filtered, "Ok", "Stay", << >>, << >>, << >>)
        ELSE IF InAuthority(self, signed_msg.routing.dst)
        THEN IF ~signed_msg.intact
             THEN Handled(filtered, "InvalidIntegrity", "Stay", << >>, << >>,
                          << >>)
             ELSE Handled([filtered EXCEPT !.msg_queue =
                                Append(@, signed_msg.routing)],
                          "Ok", "Stay", << >>,
                          UpdateOurKnowledge(self, signed_msg),
                          IF IsMultiple(signed_msg.routing.dst)
                          THEN <<SendSignedMessage(signed_msg)>> ELSE << >>)
        ELSE Handled(filtered, "Ok", "Stay", << >>, << >>,
                     <<SendSignedMessage(signed_msg)>>)

\* Elder::handle_signed_message.
HandleSignedMessage(self, signed_msg) ==
    LET filter_res == FilterIncoming(self, signed_msg.routing)
        filtered == [self EXCEPT !.seen = @ \cup {signed_msg.routing}]
    IN  IF filter_res = "KnownMessage"
        THEN Handled(filtered, "Ok", "Stay", << >>, << >>, << >>)
        ELSE IF InAuthority(self, signed_msg.routing.dst)
        THEN IF ~CheckTrust(signed_msg, self)
             THEN Handled(filtered, "UntrustedMessage", "Stay", << >>, << >>,
                          << >>)
             ELSE IF ~signed_msg.intact
             THEN Handled(filtered, "InvalidIntegrity", "Stay", << >>, << >>,
                          << >>)
             ELSE Handled(IF filter_res = "NewMessage"
                          THEN [filtered EXCEPT !.msg_queue =
                                    Append(@, signed_msg.routing)]
                          ELSE filtered,
                          "Ok", "Stay", << >>,
                          UpdateOurKnowledge(self, signed_msg),
                          IF IsMultiple(signed_msg.routing.dst)
                          THEN <<SendSignedMessage(signed_msg)>> ELSE << >>)
        ELSE Handled(filtered, "Ok", "Stay", << >>, << >>,
                     <<SendSignedMessage(signed_msg)>>)

\* Elder::handle_routing_messages: the queue is emptied; a user message for
\* our authority is handed to the outbox, another content is dispatched to
\* its handler and a failure of that is logged.
HandleRoutingMessages(self) ==
    LET dispatched == SelectSeq(self.msg_queue,
                        LAMBDA m : /\ InAuthority(self, m.dst)
                                   /\ m.content = "UserMessage")
    IN  Handled([self EXCEPT !.msg_queue = << >>], "Ok", "Stay",
                [i \in 1 .. Len(dispatched) |->
                    [kind |-> "MessageReceived", content |-> dispatched[i]]],
                << >>, << >>)

\* The state machine replaces a terminated state; a state that stays goes
\* on with what the handler left.
ElderAfter(done) ==
    IF done.transition = "Terminate"
    THEN [done.self EXCEPT !.stage = "Terminated"]
    ELSE done.self

\* Elder::first: the seed node is the only elder of the whole name space at
\* version 0.  Elder::from_adult: an adult promoted with an EldersInfo it and
\* one more elder are in.
ElderFirst(name) ==
    [ElderState(name, [n \in Names |-> "None"], {name}, EmptyPrefix, 0, {})
        EXCEPT !.is_first_node = TRUE]

ElderFromAdult(name, other, version) ==
    ElderState(name, [n \in Names |-> "None"], {name, other}, EmptyPrefix,
               version, {})

InitElder ==
    /\ section = NoSection
    /\ call = Idle
    /\ \/ node = ElderFirst(0)
       \/ node = ElderFromAdult(0, 2 ^ NameBits - 1, 1)

\* The peers other than the elder itself.
OtherNames(self) == Names \ {self.name}

ElderHandlePeerLost ==
    /\ call = Idle
    /\ node.stage = "Elder"
    /\ \E pub_id \in OtherNames(node) :
        LET done == HandlePeerLost(node, pub_id)
        IN  /\ node' = ElderAfter(done)
            /\ call' = Call("handle_peer_lost", pub_id, done, node)
    /\ UNCHANGED section

ElderHandleConnectionResponse ==
    /\ call = Idle
    /\ node.stage = "Elder"
    /\ \E pub_id \in OtherNames(node) :
        LET done == HandleConnectionResponse(node, pub_id)
        IN  /\ node' = ElderAfter(done)
            /\ call' = Call("handle_connection_response", pub_id, done, node)
    /\ UNCHANGED section

ElderHandleJoinRequest ==
    /\ call = Idle
    /\ node.stage = "Elder"
    /\ \E pub_id \in OtherNames(node) :
        LET done == HandleJoinRequest(node, pub_id)
        IN  /\ node' = ElderAfter(done)
            /\ call' = Call("handle_join_request", pub_id, done, node)
    /\ UNCHANGED section

\* Parsec hands the elder a consensused Online, Offline, AddElder or
\* RemoveElder event.
ElderHandleOnlineEvent ==
    /\ call = Idle
    /\ node.stage = "Elder"
    /\ \E pub_id \in OtherNames(node) :
        LET done == HandleOnlineEvent(node, pub_id)
        IN  /\ node' = ElderAfter(done)
            /\ call' = Call("handle_online_event", pub_id, done, node)
    /\ UNCHANGED section

ElderHandleOfflineEvent ==
    /\ call = Idle
    /\ node.stage = "Elder"
    /\ \E pub_id \in OtherNames(node) :
        LET done == HandleOfflineEvent(node, pub_id)
        IN  /\ node' = ElderAfter(done)
            /\ call' = Call("handle_offline_event", pub_id, done, node)
    /\ UNCHANGED section

ElderHandleAddElderEvent ==
    /\ call = Idle
    /\ node.stage = "Elder"
    /\ \E pub_id \in OtherNames(node) :
        LET done == HandleAddElderEvent(node, pub_id)
        IN  /\ node' = ElderAfter(done)
            /\ call' = Call("handle_add_elder_event", pub_id, done, node)
    /\ UNCHANGED section

ElderHandleRemoveElderEvent ==
    /\ call = Idle
    /\ node.stage = "Elder"
    /\ \E pub_id \in OtherNames(node) :
        LET done == HandleRemoveElderEvent(node, pub_id)
        IN  /\ node' = ElderAfter(done)
            /\ call' = Call("handle_remove_elder_event", pub_id, done, node)
    /\ UNCHANGED section

\* What the peer map and the client checks can say of the sender of a
\* BootstrapRequest.
ClientChecks(conn_info) ==
    IF conn_info = "Client" THEN {"Banned", "Full", "Accepted"}
    ELSE {"Accepted"}

ElderHandleBootstrapRequest ==
    /\ call = Idle
    /\ node.stage = "Elder"
    /\ \E pub_id \in OtherNames(node), conn_info \in {"None", "Client", "Node"} :
        \E client_check \in ClientChecks(conn_info) :
            LET done == HandleBootstrapRequest(node, pub_id, conn_info,
                                               client_check)
            IN  /\ node' = ElderAfter(done)
                /\ call' = Call("handle_bootstrap_request",
                                [pub_id |-> pub_id, conn_info |-> conn_info,
                                 client_check |-> client_check], done, node)
    /\ UNCHANGED section

\* The EldersInfos that consensus can hand to the elder: the next version of
\* its own section, of one half of it or of the section above it, or the info
\* of another section.
ConsensusedEldersInfos(self) ==
    {[members |-> IF Matches(pfx, self.name)
                  THEN {m \in self.members : Matches(pfx, m)}
                  ELSE {n \in Names : Matches(pfx, n)},
      prefix |-> pfx,
      version |-> IF Matches(pfx, self.name) THEN self.version + 1 ELSE 1] :
        pfx \in Prefixes}

Finalisings(self, elders_info) ==
    IF \/ IsExtensionOf(elders_info.prefix, self.prefix)
       \/ IsExtensionOf(self.prefix, elders_info.prefix)
    THEN BOOLEAN ELSE {TRUE}

HavingKeys(self, elders_info) ==
    IF Matches(elders_info.prefix, self.name) THEN BOOLEAN ELSE {FALSE}

Mergings == {"NotReady", "ShouldVote", "Ready", "Merged"}

\* Parsec hands the elder a consensused SectionInfo that the chain has taken
\* in; old_pfx is the prefix the chain had.
ElderHandleSectionInfoEvent ==
    /\ call = Idle
    /\ node.stage = "Elder"
    /\ node.version < MaxVersion
    /\ \E elders_info \in ConsensusedEldersInfos(node) :
        \E finalised \in Finalisings(node, elders_info),
           has_keys \in HavingKeys(node, elders_info),
           merging \in Mergings :
            LET done == HandleSectionInfoEvent(
                            ChainAddEldersInfo(node, elders_info), elders_info,
                            node.prefix, finalised, has_keys, merging)
            IN  /\ node' = ElderAfter(done)
                /\ call' = Call("handle_section_info_event",
                                [elders_info |-> elders_info,
                                 old_pfx |-> node.prefix], done, node)
    /\ UNCHANGED section

NextElder ==
    \/ ElderHandlePeerLost
    \/ ElderHandleConnectionResponse
    \/ ElderHandleJoinRequest
    \/ ElderHandleOnlineEvent
    \/ ElderHandleOfflineEvent
    \/ ElderHandleAddElderEvent
    \/ ElderHandleRemoveElderEvent
    \/ ElderHandleBootstrapRequest
    \/ ElderHandleSectionInfoEvent
    \/ Return

SpecElder == InitElder /\ [][NextElder]_vars

\* The routing messages that reach the elder, and what they are signed with.
RoutingMessages ==
    {RoutingMessage("UserMessage", dst) :
        dst \in {ManagedNode(0), ManagedNode(1),
                 PrefixSection(<<0>>), PrefixSection(<<1>>)}}
    \cup {RoutingMessage("NeighbourInfo", PrefixSection(<<0>>))}

SignedRoutingMessages ==
    {SignedRoutingMessage(routing, {key}, intact) :
        routing \in RoutingMessages, key \in Keys, intact \in BOOLEAN}

\* An elder of the section of prefix 0 that trusts the first key or the first
\* two keys.
InitElderMessages ==
    /\ section = NoSection
    /\ call = Idle
    /\ \E keys \in {{0}, {0, 1}} :
        node = [ElderState(0, [n \in Names |-> "None"], {0}, <<0>>, 1,
                           {<<1>>}) EXCEPT !.keys = keys]

ElderHandleSignedMessage ==
    /\ call = Idle
    /\ node.stage = "Elder"
    /\ Len(node.msg_queue) < MaxQueue
    /\ \E signed_msg \in SignedRoutingMessages :
        LET done == HandleSignedMessage(node, signed_msg)
        IN  /\ node' = ElderAfter(done)
            /\ call' = Call("handle_signed_message", signed_msg, done, node)
    /\ UNCHANGED section

ElderHandleRoutingMessages ==
    /\ call = Idle
    /\ node.stage = "Elder"
    /\ LET done == HandleRoutingMessages(node)
       IN  /\ node' = ElderAfter(done)
           /\ call' = Call("handle_routing_messages", << >>, done, node)
    /\ UNCHANGED section

NextElderMessages ==
    \/ ElderHandleSignedMessage
    \/ ElderHandleRoutingMessages
    \/ Return

SpecElderMessages == InitElderMessages /\ [][NextElderMessages]_vars

\* The handlers of the elder.
ElderOps ==
    {"handle_peer_lost", "handle_connection_response", "handle_join_request",
     "handle_online_event", "handle_offline_event", "handle_add_elder_event",
     "handle_remove_elder_event", "handle_bootstrap_request",
     "handle_section_info_event"}

\* The messages of a kind among those sent.
SentOf(sent, content) ==
    SelectSeq(sent, LAMBDA m : m.content = content)

(***************************************************************************)
(* C33.  An elder emits RestartRequired only when, after a peer was        *)
(* dropped, no routing node is connected and the version of its section's  *)
(* EldersInfo is above 0, and it terminates only in handle_peer_lost with  *)
(* that event emitted; there the event always terminates it.  At version 0 *)
(* no handler emits RestartRequired and the elder keeps running.           *)
(***************************************************************************)
C33_RestartRequiredOnlyWithoutPeersAfterGenesis ==
    call.op \in ElderOps
        => LET emitted == Emits(call.result.events, "RestartRequired")
               terminated == call.result.transition = "Terminate"
           IN  /\ emitted
                    => /\ Called("handle_peer_lost")
                            \/ Called("handle_remove_elder_event")
                       /\ call.before.peers[call.arg] # "None"
                       /\ node.peers[call.arg] = "None"
                       /\ ConnectedNodePeers(node.peers) = {}
                       /\ call.before.version > 0
               /\ terminated => emitted /\ Called("handle_peer_lost")
               /\ Called("handle_peer_lost") /\ emitted => terminated
               /\ terminated <=> node.stage = "Terminated"
               /\ call.before.version = 0
                    => ~emitted /\ ~terminated /\ node.stage = "Elder"

C33_Witness ==
    /\ Called("handle_peer_lost")
    /\ call.before.peers[call.arg] = "Node"
    /\ Emits(call.result.events, "RestartRequired")
    /\ call.result.transition = "Terminate"
    /\ node.stage = "Terminated"

(***************************************************************************)
(* C35.  A BootstrapRequest that the elder accepts is answered with one    *)
(* response: Join when the requester's name matches the elder's prefix,    *)
(* Rebootstrap towards the closest section otherwise.  A client refused    *)
(* because no more clients can be accepted gets the error ClientLimit and  *)
(* a request refused for too few peers gets TooFewPeers, each followed by  *)
(* the disconnection of the requester; a requester that is refused or      *)
(* disconnected is never sent Join.                                        *)
(***************************************************************************)
C35_BootstrapRequestIsAnsweredByPrefix ==
    Called("handle_bootstrap_request")
        => LET pub_id == call.arg.pub_id
               self == call.before
               sent == call.result.sent
               responses == SentOf(sent, "BootstrapResponse")
               refused == SentOf(sent, "Disconnect") # << >>
               accepted == call.result.result = "Ok" /\ ~refused
               error(e) == DirectMessage("BootstrapResponse", pub_id,
                                         BootstrapResponseError(e))
           IN  /\ accepted
                    => /\ Len(sent) = 1
                       /\ sent[1].dst = pub_id
                       /\ sent[1].content = "BootstrapResponse"
                       /\ IF Matches(self.prefix, pub_id)
                          THEN sent[1].response =
                                [kind |-> "Join", section |-> self.prefix]
                          ELSE sent[1].response =
                                [kind |-> "Rebootstrap",
                                 section |-> ClosestSection(self, pub_id)]
                       /\ node.peers[pub_id] \in {"Client", "JoiningNode"}
               /\ call.arg.conn_info = "Client" /\ call.arg.client_check = "Full"
                    => sent = <<error("ClientLimit"), Disconnect(pub_id)>>
               /\ \A i \in 1 .. Len(responses) :
                    responses[i].response.kind = "Error"
                        => /\ sent = <<responses[i], Disconnect(pub_id)>>
                           /\ responses[i].response.error = "TooFewPeers"
                                => ElderChainLen(self) < MinSectionSize - 1
                           /\ responses[i].response.error = "ClientLimit"
                                => call.arg.client_check = "Full"
               /\ ~accepted
                    => /\ node = self
                       /\ \A i \in 1 .. Len(responses) :
                            responses[i].response.kind = "Error"

C35_Witness ==
    /\ Called("handle_bootstrap_request")
    /\ Len(call.result.sent) = 1
    /\ call.result.sent[1].content = "BootstrapResponse"
    /\ call.result.sent[1].response.kind = "Rebootstrap"
    /\ call.result.sent[1].response.section = <<1>>
    /\ call.before.prefix = <<0>>

C37_SplitTellsNeighboursOnce ==
    Called("handle_section_info_event") /\ call.result.result = "Ok"
        => LET elders_info == call.arg.elders_info
               old_pfx == call.arg.old_pfx
               split == IsExtensionOf(elders_info.prefix, old_pfx)
               merge == IsExtensionOf(old_pfx, elders_info.prefix)
               own == Matches(elders_info.prefix, node.name)
               infos == SentOf(call.result.sent, "NeighbourInfo")
               events == call.result.events
           IN  /\ split
                    => /\ Len(node.prefix) = Len(elders_info.prefix)
                       /\ Matches(node.prefix, node.name)
                       /\ Cardinality({i \in 1 .. Len(events) :
                            events[i].kind = "SectionSplit"}) = 1
                       /\ \E i \in 1 .. Len(events) :
                            events[i] = Event("SectionSplit",
                                              elders_info.prefix)
                       /\ \A pfx \in node.other_prefixes :
                            Cardinality({i \in 1 .. Len(infos) :
                                infos[i].dst = pfx}) = 1
                       /\ \A i \in 1 .. Len(infos) :
                            infos[i].dst \in node.other_prefixes
               /\ ~split /\ ~merge /\ ~own => infos = << >>

C37_Witness ==
    /\ Called("handle_section_info_event")
    /\ call.result.result = "Ok"
    /\ IsExtensionOf(call.arg.elders_info.prefix, call.arg.old_pfx)
    /\ Matches(call.arg.elders_info.prefix, node.name)
    /\ Len(SentOf(call.result.sent, "NeighbourInfo")) = 1
    /\ Emits(call.result.events, "SectionSplit")

(***************************************************************************)
(* C34 as stated.  A signed routing message for the elder's own authority  *)
(* is put on the queue only if its proof chain is trusted and its          *)
(* integrity check passes; an untrusted one is not queued, not sent on,    *)
(* yields UntrustedMessage and leaves the elder an Elder.                  *)
(***************************************************************************)
C34_UntrustedYieldsUntrustedMessage ==
    Called("handle_signed_message")
        /\ InAuthority(call.before, call.arg.routing.dst)
        => /\ node.msg_queue # call.before.msg_queue
                => CheckTrust(call.arg, call.before) /\ call.arg.intact
           /\ ~CheckTrust(call.arg, call.before)
                => /\ node.msg_queue = call.before.msg_queue
                   /\ call.result.sent = << >>
                   /\ call.result.result = "UntrustedMessage"
                   /\ node.stage = "Elder"

(***************************************************************************)
(* C34.  A signed routing message for the elder's own authority is put on  *)
(* the queue only if its proof chain is trusted and its integrity check    *)
(* passes.  An untrusted one is never queued nor sent on and leaves the     *)
(* elder an Elder; it yields UntrustedMessage when the filter has not seen  *)
(* the routing message before, and is dropped with Ok when it has.         *)
(***************************************************************************)
C34_UntrustedIsDropped ==
    Called("handle_signed_message")
        /\ InAuthority(call.before, call.arg.routing.dst)
        => /\ node.msg_queue # call.before.msg_queue
                => /\ CheckTrust(call.arg, call.before)
                   /\ call.arg.intact
                   /\ node.msg_queue
                        = Append(call.before.msg_queue, call.arg.routing)
           /\ ~CheckTrust(call.arg, call.before)
                => /\ node.msg_queue = call.before.msg_queue
                   /\ call.result.sent = << >>
                   /\ call.result.votes = << >>
                   /\ call.result.result =
                        (IF call.arg.routing \in call.before.seen
                         THEN "Ok" ELSE "UntrustedMessage")
                   /\ call.result.transition = "Stay"
                   /\ node.stage = "Elder"

C34_Witness ==
    /\ Called("handle_signed_message")
    /\ InAuthority(call.before, call.arg.routing.dst)
    /\ IsMultiple(call.arg.routing.dst)
    /\ ~CheckTrust(call.arg, call.before)
    /\ call.arg.intact
    /\ call.arg.routing \notin call.before.seen
    /\ call.before.msg_queue # << >>
    /\ call.result.result = "UntrustedMessage"

(***************************************************************************)
(* C38.  merge replaces the receiver's elders_info only by the other       *)
(* view's, and only if that elders_info verifies itself and its signing    *)
(* key is in the merged chain; an other view whose elders_info does not    *)
(* verify itself or is signed by a key absent from the merged chain leaves *)
(* the receiver's elders_info as it was.                                   *)
(***************************************************************************)
C38_MergeAdoptsOnlyVerifiedKnownKey ==
    Called("merge")
        => /\ section.elders_info # call.before.elders_info
                => /\ call.result = "Ok"
                   /\ section.elders_info = call.arg.elders_info
                   /\ ProvenSelfVerify(call.arg.elders_info)
                   /\ HasKey(section.chain,
                             call.arg.elders_info.proof.public_key)
           /\ \/ ~ProvenSelfVerify(call.arg.elders_info)
              \/ ~HasKey(section.chain, call.arg.elders_info.proof.public_key)
                => section.elders_info = call.before.elders_info

\* The merge extends the chain and adopts the other view's elders_info.
C38_Witness ==
    /\ Called("merge")
    /\ call.result = "Ok"
    /\ section.elders_info = call.arg.elders_info
    /\ section.elders_info # call.before.elders_info
    /\ ChainLen(section.chain) > ChainLen(call.before.chain)

PeerNode(view) == [stage |-> "Peer", section |-> view]

\* The EldersInfos the section's consensus signs for the nodes of the model.
ExchangeEldersInfos ==
    {i \in GenuineEldersInfos : i.value.elders \subseteq PeerNames}

ExchangeViews ==
    {s \in {SectionNew(chain, info) :
                chain \in NetworkChains, info \in ExchangeEldersInfos} :
        HasKey(s.chain, s.elders_info.proof.public_key)}

InitExchange ==
    /\ section \in ExchangeViews
    /\ \E view \in ExchangeViews : node = PeerNode(view)
    /\ call = Idle

\* A.merge(B) and B.merge(A)
Exchange ==
    /\ call = Idle
    /\ \E sent_before_merge \in BOOLEAN :
        LET ours  == SectionMerge(section, node.section)
            sent  == IF sent_before_merge THEN section ELSE ours.section
            peers == SectionMerge(node.section, sent)
        IN  /\ section' = ours.section
            /\ node' = PeerNode(peers.section)
            /\ call' = Call("exchange", node.section,
                            [ours |-> ours.result, peers |-> peers.result],
                            section)

\* update_elders at this node
ExchangeUpdateElders ==
    /\ call = Idle
    /\ \E new_elders_info \in ExchangeEldersInfos :
        LET done == SectionUpdateElders(section, new_elders_info)
        IN  /\ section' = done.section
            /\ call' = Call("update_elders", new_elders_info, done.result, section)
    /\ UNCHANGED node

\* update_elders at the peer
PeerUpdateElders ==
    /\ call = Idle
    /\ \E new_elders_info \in ExchangeEldersInfos :
        LET done == SectionUpdateElders(node.section, new_elders_info)
        IN  /\ node' = PeerNode(done.section)
            /\ call' = Call("peer_update_elders", new_elders_info, done.result,
                            section)
    /\ UNCHANGED section

NextExchange ==
    \/ Exchange
    \/ ExchangeUpdateElders
    \/ PeerUpdateElders
    \/ Return

SpecExchange == InitExchange /\ [][NextExchange]_vars

\* Both merges of the exchange succeeded.
Exchanged ==
    /\ Called("exchange")
    /\ call.result.ours = "Ok"
    /\ call.result.peers = "Ok"

\* The two elders_infos differ, are signed by the same key and name equally
\* many elders.
FullTie(lhs, rhs) ==
    /\ lhs # rhs
    /\ lhs.proof.public_key = rhs.proof.public_key
    /\ Cardinality(lhs.value.elders) = Cardinality(rhs.value.elders)

(***************************************************************************)
(* C40 as stated.  After A.merge(B) and B.merge(A) both nodes hold the     *)
(* same chain and the same elders_info, also when the two elders_infos are *)
(* signed by the same key and have the same number of elders.              *)
(***************************************************************************)
C40_ExchangeConverges ==
    Exchanged
        => /\ section.chain = node.section.chain
           /\ section.elders_info = node.section.elders_info

(***************************************************************************)
(* C40.  After A.merge(B) and B.merge(A) both chains end with the same     *)
(* key, and are the same chain when they started at the same key; the two  *)
(* nodes hold the same elders_info unless the two elders_infos differ, are *)
(* signed by the same key and have the same number of elders: then each    *)
(* node keeps its own.                                                     *)
(***************************************************************************)
C40_ExchangeConvergesUnlessFullTie ==
    Exchanged
        => /\ LastKey(section.chain) = LastKey(node.section.chain)
           /\ call.before.chain.head = call.arg.chain.head
                => section.chain = node.section.chain
           /\ IF FullTie(call.before.elders_info, call.arg.elders_info)
              THEN /\ section.elders_info = call.before.elders_info
                   /\ node.section.elders_info = call.arg.elders_info
              ELSE section.elders_info = node.section.elders_info

\* Two views with different chains and elders_infos signed by different keys
\* have exchanged: the node took the peer's elders_info.
C40_Witness ==
    /\ Exchanged
    /\ call.before.chain # call.arg.chain
    /\ call.before.elders_info.proof.public_key
            # call.arg.elders_info.proof.public_key
    /\ section.elders_info # call.before.elders_info
    /\ section.elders_info = node.section.elders_info

====
